---- MODULE Spec2Model ----
(***************************************************************************)
(* Model of the Arch installation scripts of this repository:             *)
(*   Arch-Install-V2.py        the single-file installer ("V2")           *)
(*   main.py + Phases/*        the phased installer ("Phases")            *)
(*   New-V2/main.py + phases/* the earlier phased installer ("NewV2")     *)
(*   arch_install_v1.py        the first installer ("v1")                 *)
(*   auto_partition.py         the stand-alone partitioner                *)
(* Text (disk names, passwords, script content) is a sequence of          *)
(* one-character strings, so that validators, formatting and containment  *)
(* are computed rather than assumed.                                      *)
(***************************************************************************)
EXTENDS Integers, Sequences, FiniteSets, TLC

VARIABLES
    \* ---- partition planner (run_fdisk / auto_partition.main / V2 main) ----
    pl_script,      \* which script derives the paths
    pl_pc,          \* "input" | "derived" | "rejected"
    pl_name,        \* the disk identifier after strip()/lower()
    pl_parts,       \* <<part1, part2, part3>> as absolute device paths
    \* ---- second-stage script generation (chroot_config / V2 main) ----
    sc_script,      \* which script generates: "Phases" | "NewV2" | "ArchInstallV2"
    sc_pc,          \* "args" | "written" | Phases: "ran" | "root_set" |
                    \* "user_set" | "removed" | "exited"
    sc_args,        \* username, host_name, user_pass, root_pass, timezone, gpu
    sc_file,        \* the text written to /mnt/chroot.sh
    sc_log,         \* the commands chroot_config issued after the write
    \* ---- get_install_config (Phases/user_input.py) ----
    cf_raw,         \* the loaded JSON object: field -> text, or Absent
    cf_pc,          \* index into CfOrder of the field being settled; 8 = returned
    cf_config,      \* the InstallConfig being built: field -> text
    cf_prompted,    \* the fields for which the operator was prompted
    cf_first,       \* the InstallConfig of the first call, once it is fed back in
    \* ---- one operator-supplied value on its way into the pipeline ----
    in_script,      \* "Phases" | "V2" | "NewV2"
    in_field,       \* which value is being read
    in_pc,          \* "prompt" | "reprompt" | "accepted" | "consumed" |
                    \* passwords: "password_set" | "raised"
    in_value,       \* the value as the installer holds it
    in_second,      \* a password's re-entered line, NotRead when none was read
    \* ---- the fstab step (base_install / v1 main) ----
    fs_script,      \* "Phases" | "NewV2" | "v1"
    fs_content,     \* /mnt/etc/fstab: the generator outputs it holds, in order
    fs_runs,        \* how many times the step has run on this target
    \* ---- the installation pipeline (main of each installer) ----
    variant,        \* "V2" | "Phases" | "NewV2" | "v1"
    pc,             \* index of the next step in Program(variant)
    exit_code,      \* NoExit while the process runs, else its exit status
    auto_yes,       \* config.auto_confirm (V2) / _AUTO_YES (Phases)
    dry_run,        \* config.dry_run (V2)
    attempt,        \* V2 run_command: its local attempt counter
    loop_attempt,   \* V2 main: the attempt counter of the enclosing while loop
    depth,          \* V2 main: nested main() calls made by the retry branch
    active,         \* mounts and swap currently active, in acquisition order
    released,       \* resources released by cleanup code, in release order
    snapshot,       \* active as it was when the signal handler started
    umount_ok,      \* the handler's umount -R /mnt returned 0
    executed,       \* the steps whose external command has been spawned
    confirmed,      \* the prompts whose confirm() returned True on an operator's answer
    declined,       \* the prompt whose refusal ended the run, or "none"
    fatal,          \* the step whose failure ended the run, or "none"
    cmd_rc,         \* the status the command of that step returned, else 0
    interrupted,    \* signal_handler ran
    refl_outcome,   \* how this run of main left a failed mirror-list refresh
    fstab,          \* /mnt/etc/fstab of this run's target, as fs_content
    files,          \* generated scripts present in the target root
    current_step,   \* V2: InstallProgress.current_step of the running main
    \* ---- presence of external tools (ensure_dependencies and the commands) ----
    dp_script,      \* "V2" | "Phases" | "NewV2" | "v1" | "lucks"
    dp_absent,      \* the tools shutil.which does not find in PATH
    dp_pc,          \* index of the next operation in DpProgram(dp_script)
    dp_checked,     \* the tools the run has tested for presence
    dp_ran,         \* the tools the run has spawned
    dp_exit,        \* "running" | "dependency_error" | "not_found" | "done"
    \* ---- one call of confirm(prompt) ----
    cn_script,      \* "Phases" | "V2" | "NewV2"
    cn_site,        \* the question asked (V2: which call site of main)
    cn_auto,        \* _AUTO_YES (Phases) / config.auto_confirm (V2)
    cn_line,        \* the line the operator would type
    cn_pc,          \* "call" | "returned"
    cn_result,      \* the value confirm returned
    cn_reads,       \* how many lines confirm read from standard input
    \* ---- save_config (Arch-Install-V2.py) ----
    sv_config,      \* the InstallConfig handed to save_config
    sv_file,        \* install_config.json: key -> value, <<>> before the write
    sv_pc,          \* "filled" | "saved" | "unsaved" | "parsed"
    sv_argv,        \* the options of the next run of the installer
    sv_loaded,      \* the config that run's main holds after its arguments
    \* ---- one call of run_command ----
    ex_script,      \* "V2" | "Phases" | "NewV2" | "v1"
    ex_command,     \* command[0] of the call
    ex_pc,          \* "called" | "finished" (the child is done) | "ended"
    ex_attempt,     \* V2: the local attempt counter
    ex_spawns,      \* how many times subprocess.run was called
    ex_result,      \* what the last subprocess.run did
    ex_outcome      \* how the call ended, as its caller sees it

pl_vars == <<pl_script, pl_pc, pl_name, pl_parts>>
sc_vars == <<sc_script, sc_pc, sc_args, sc_file, sc_log>>

cf_vars == <<cf_raw, cf_pc, cf_config, cf_prompted, cf_first>>

in_vars == <<in_script, in_field, in_pc, in_value, in_second>>
fs_vars == <<fs_script, fs_content, fs_runs>>
pp_vars == <<variant, pc, exit_code, auto_yes, dry_run, attempt, loop_attempt,
             depth, active, released, snapshot, umount_ok, executed, confirmed,
             declined, fatal, cmd_rc, interrupted, refl_outcome, fstab, files,
             current_step>>

dp_vars == <<dp_script, dp_absent, dp_pc, dp_checked, dp_ran, dp_exit>>
cn_vars == <<cn_script, cn_site, cn_auto, cn_line, cn_pc, cn_result, cn_reads>>
sv_vars == <<sv_config, sv_file, sv_pc, sv_argv, sv_loaded>>
ex_vars == <<ex_script, ex_command, ex_pc, ex_attempt, ex_spawns, ex_result,
             ex_outcome>>

vars == <<pl_vars, sc_vars, cf_vars, in_vars, fs_vars, pp_vars,
          dp_vars, cn_vars, sv_vars, ex_vars>>

\* the frame of each part: the other parts do not move
PlFrame == UNCHANGED <<sc_vars, cf_vars, in_vars, fs_vars, pp_vars, dp_vars, cn_vars, sv_vars, ex_vars>>
ScFrame == UNCHANGED <<pl_vars, cf_vars, in_vars, fs_vars, pp_vars, dp_vars, cn_vars, sv_vars, ex_vars>>
CfFrame == UNCHANGED <<pl_vars, sc_vars, in_vars, fs_vars, pp_vars, dp_vars, cn_vars, sv_vars, ex_vars>>
InFrame == UNCHANGED <<pl_vars, sc_vars, cf_vars, fs_vars, pp_vars, dp_vars, cn_vars, sv_vars, ex_vars>>
FsFrame == UNCHANGED <<pl_vars, sc_vars, cf_vars, in_vars, pp_vars, dp_vars, cn_vars, sv_vars, ex_vars>>
PpFrame == UNCHANGED <<pl_vars, sc_vars, cf_vars, in_vars, fs_vars, dp_vars, cn_vars, sv_vars, ex_vars>>
MainFrame == UNCHANGED <<pl_vars, sc_vars, cf_vars, in_vars, fs_vars, pp_vars>>
DpFrame == MainFrame /\ UNCHANGED <<cn_vars, sv_vars, ex_vars>>
CnFrame == MainFrame /\ UNCHANGED <<dp_vars, sv_vars, ex_vars>>
SvFrame == MainFrame /\ UNCHANGED <<dp_vars, cn_vars, ex_vars>>
ExFrame == MainFrame /\ UNCHANGED <<dp_vars, cn_vars, sv_vars>>

----------------------------------------------------------------------------
(* Characters and text helpers *)

LowerChars == {"a","b","c","d","e","f","g","h","i","j","k","l","m",
               "n","o","p","q","r","s","t","u","v","w","x","y","z"}
UpperChars == {"A","B","C","D","E","F","G","H","I","J","K","L","M",
               "N","O","P","Q","R","S","T","U","V","W","X","Y","Z"}
DigitChars == {"0","1","2","3","4","5","6","7","8","9"}
AlnumChars == LowerChars \cup UpperChars \cup DigitChars

LowerSeq == <<"a","b","c","d","e","f","g","h","i","j","k","l","m",
              "n","o","p","q","r","s","t","u","v","w","x","y","z">>
UpperSeq == <<"A","B","C","D","E","F","G","H","I","J","K","L","M",
              "N","O","P","Q","R","S","T","U","V","W","X","Y","Z">>

\* str.lower() on one character
LowerOf(c) ==
    IF c \in UpperChars
    THEN LowerSeq[CHOOSE i \in 1..26 : UpperSeq[i] = c]
    ELSE c

\* str.lower()
Lower(s) == [i \in 1..Len(s) |-> LowerOf(s[i])]

RECURSIVE LStrip(_)
LStrip(s) == IF s # <<>> /\ Head(s) = " " THEN LStrip(Tail(s)) ELSE s

RECURSIVE RStrip(_)
RStrip(s) ==
    IF s # <<>> /\ s[Len(s)] = " " THEN RStrip(SubSeq(s, 1, Len(s) - 1)) ELSE s

\* str.strip()
Strip(s) == LStrip(RStrip(s))

\* all sequences over S of length 0..n
RECURSIVE SeqsUpTo(_, _)
SeqsUpTo(S, n) ==
    IF n = 0 THEN {<<>>}
    ELSE LET shorter == SeqsUpTo(S, n - 1)
         IN  shorter \cup {Append(s, c) : s \in shorter, c \in S}

\* needle occurs in hay as a contiguous run of characters (Python's `in`)
Contains(hay, needle) ==
    \E i \in 1..(Len(hay) - Len(needle) + 1) :
        SubSeq(hay, i, i + Len(needle) - 1) = needle

StartsWith(s, p) == Len(s) >= Len(p) /\ SubSeq(s, 1, Len(p)) = p

----------------------------------------------------------------------------
(* Partition planner: disk-name validators and partition device paths *)

\* longest disk name enumerated exhaustively over PlAlphabet
MaxNameLen == 3

PlAlphabet == {"s", "d", "a", "S", "0", "/", " "}

Txt_nvme0n1 == <<"n","v","m","e","0","n","1">>
Txt_sda     == <<"s","d","a">>

\* longer names tried next to the exhaustive short ones
NamedDisks ==
    { Txt_nvme0n1,
      <<"n","v","m","e","1","0","n","2">>,
      <<"n","v","m","e","0","n">>,
      <<"n","v","m","e">>,
      <<"m","m","c","b","l","k","0">>,
      <<"N","V","M","E","0","N","1">>,
      <<"s","d","a","1">>,
      <<"v","d","a">> }

\* the lines an operator may type at the disk prompt
DiskInputs == (SeqsUpTo(PlAlphabet, MaxNameLen) \ {<<>>}) \cup NamedDisks

DevPrefix == <<"/","d","e","v","/">>

AllIn(s, S) == \A i \in 1..Len(s) : s[i] \in S

\* re.fullmatch(r"[a-zA-Z0-9]+", name)
validate_disk_name(name) == Len(name) >= 1 /\ AllIn(name, AlnumChars)

\* re.fullmatch(r"sd[a-z]", name)
Match_sd_lower(name) ==
    Len(name) = 3 /\ name[1] = "s" /\ name[2] = "d" /\ name[3] \in LowerChars

\* re.fullmatch(r"nvme\d+n\d+", name)
Match_nvme(name) ==
    /\ StartsWith(name, <<"n","v","m","e">>)
    /\ \E k \in 6..(Len(name) - 1) :
          /\ name[k] = "n"
          /\ AllIn(SubSeq(name, 5, k - 1), DigitChars)
          /\ AllIn(SubSeq(name, k + 1, Len(name)), DigitChars)

\* re.fullmatch("sd.", name): the dot matches any character but a newline
Match_sd_dot(name) ==
    Len(name) = 3 /\ name[1] = "s" /\ name[2] = "d" /\ name[3] # "\n"

\* New-V2/phases/fdisk_setup.py: the acceptance test of the name loop
run_fdisk_accepts(name) == Match_sd_lower(name) \/ Match_nvme(name)

\* New-V2/phases/fdisk_setup.py: part1..part3 from disk_path
run_fdisk_parts(name) ==
    LET disk_path == DevPrefix \o name
    IN  IF Match_sd_dot(name)
        THEN <<disk_path \o <<"1">>, disk_path \o <<"2">>, disk_path \o <<"3">>>>
        ELSE <<disk_path \o <<"p","1">>, disk_path \o <<"p","2">>,
               disk_path \o <<"p","3">>>>

\* auto_partition.py: p1..p3 of the printed next steps
auto_partition_parts(disk_base) ==
    LET disk_path == DevPrefix \o disk_base
    IN  IF StartsWith(disk_base, <<"n","v","m","e">>)
        THEN <<disk_path \o <<"p","1">>, disk_path \o <<"p","2">>,
               disk_path \o <<"p","3">>>>
        ELSE <<disk_path \o <<"1">>, disk_path \o <<"2">>, disk_path \o <<"3">>>>

\* Arch-Install-V2.py: part1..part3, each later used as f"/dev/{partN}"
V2_parts(disk_base) ==
    << DevPrefix \o (disk_base \o <<"1">>),
       DevPrefix \o (disk_base \o <<"2">>),
       DevPrefix \o (disk_base \o <<"3">>) >>

PlScripts == {"fdisk_setup", "auto_partition", "ArchInstallV2"}

PlInit ==
    /\ pl_script \in PlScripts
    /\ pl_pc = "input"
    /\ pl_name = <<>>
    /\ pl_parts = <<>>

\* New-V2 run_fdisk: read a name (strip, lower) until it is accepted
PlReadFdiskSetup ==
    /\ pl_script = "fdisk_setup"
    /\ pl_pc = "input"
    /\ \E line \in DiskInputs :
          LET name == Lower(Strip(line))
          IN  /\ pl_name' = name
              /\ pl_pc' = IF run_fdisk_accepts(name) THEN "named" ELSE "input"
    /\ UNCHANGED <<pl_script, pl_parts>>
    /\ PlFrame

\* auto_partition main: one read; an invalid name ends the process
PlReadAutoPartition ==
    /\ pl_script = "auto_partition"
    /\ pl_pc = "input"
    /\ \E line \in DiskInputs :
          LET disk_base == Strip(line)
          IN  /\ pl_name' = disk_base
              /\ pl_pc' = IF validate_disk_name(disk_base)
                          THEN "named" ELSE "rejected"
    /\ UNCHANGED <<pl_script, pl_parts>>
    /\ PlFrame

\* V2 main: read a name (strip) until validate_disk_name accepts it
PlReadV2 ==
    /\ pl_script = "ArchInstallV2"
    /\ pl_pc = "input"
    /\ \E line \in DiskInputs :
          LET disk_base == Strip(line)
          IN  /\ pl_name' = disk_base
              /\ pl_pc' = IF validate_disk_name(disk_base)
                          THEN "named" ELSE "input"
    /\ UNCHANGED <<pl_script, pl_parts>>
    /\ PlFrame

\* the partition paths each script goes on to use
PlDerive ==
    /\ pl_pc = "named"
    /\ pl_parts' = CASE pl_script = "fdisk_setup" -> run_fdisk_parts(pl_name)
                     [] pl_script = "auto_partition" -> auto_partition_parts(pl_name)
                     [] OTHER -> V2_parts(pl_name)
    /\ pl_pc' = "derived"
    /\ UNCHANGED <<pl_script, pl_name>>
    /\ PlFrame

PlNext == PlReadFdiskSetup \/ PlReadAutoPartition \/ PlReadV2 \/ PlDerive

EndsInDigit(name) == Len(name) >= 1 /\ name[Len(name)] \in DigitChars

\* the paths the specification's derivePartitionPaths asks for
ExpectedParts(name) ==
    LET base == DevPrefix \o name
        sep  == IF EndsInDigit(name) THEN <<"p">> ELSE <<>>
    IN  <<base \o sep \o <<"1">>, base \o sep \o <<"2">>, base \o sep \o <<"3">>>>

\* C1: for every accepted disk identifier the three partition paths are
\* /dev/<id>p1..p3 when the identifier ends in a digit and /dev/<id>1..3
\* otherwise.
C1_PartitionPaths ==
    pl_pc = "derived" => pl_parts = ExpectedParts(pl_name)

----------------------------------------------------------------------------
(* Second-stage script: the text written to /mnt/chroot.sh.  A literal     *)
(* stretch of the template is one element; an interpolated field          *)
(* contributes its characters.                                            *)

\* longest password enumerated
MaxPwLen == 2

\* "!" is the sentinel: no validator of a non-secret field admits it
Sentinel == "!"
PwAlphabet == {Sentinel, "u"}

Passwords == SeqsUpTo(PwAlphabet, MaxPwLen) \ {<<>>}
Usernames == { <<"u","s","r">>, <<"_","u","u">> }
Hostnames == { <<"p","c">> }
Timezones == { <<"U","T","C">> }
GpuChoices == { <<"0">>, <<"4">> }

ScArgs ==
    [username : Usernames, host_name : Hostnames, user_pass : Passwords,
     root_pass : Passwords, timezone : Timezones, gpu : GpuChoices]

\* Phases/base_install.py chroot_config: the f-string chroot_script
chroot_script_Phases(username, host_name, user_pass, root_pass, timezone, gpu) ==
       <<"#!/usr/bin/env bash\n\nset -euo pipefail\n\nln -sf /usr/share/zoneinfo/">>
    \o timezone
    \o <<" /etc/localtime\nhwclock --systohc\nsed -i ... /etc/locale.gen\nlocale-gen\necho LANG >> /etc/locale.conf\necho \"">>
    \o host_name
    \o <<"\" >> /etc/hostname\n# Note: root password is set after this script runs\n\ncat <<EOF > /etc/hosts\n127.0.0.1 localhost\n::1 localhost\n127.0.1.1\t">>
    \o host_name \o <<".localdomain\t">> \o host_name
    \o <<"\nEOF\n\npacman -S ... --noconfirm --needed\n(microcode)\ngpu=\"">>
    \o gpu
    \o <<"\"\ncase \"$gpu\" in ... esac\nsystemctl enable ...\n\nuseradd -m -G wheel,storage,power,audio,video,docker ">>
    \o username
    \o <<"\nsed -i ... /etc/sudoers\n# Note: user password is set after this script runs\n\ngrub-install ...\ngrub-mkconfig -o /boot/grub/grub.cfg\n">>

\* New-V2/phases/base_install.py chroot_config: the f-string chroot_script
chroot_script_NewV2(username, host_name, user_pass, root_pass, timezone, gpu) ==
       <<"#!/usr/bin/env bash\n\nln -sf /usr/share/zoneinfo/">>
    \o timezone
    \o <<" /etc/localtime\nhwclock --systohc\nsed -i ... /etc/locale.gen\nlocale-gen\necho LANG >> /etc/locale.conf\necho \"">>
    \o host_name
    \o <<"\" >> /etc/hostname\necho root:">>
    \o root_pass
    \o <<" | chpasswd\n\ncat <<EOF > /etc/hosts\n127.0.0.1 localhost\n::1 localhost\n127.0.1.1\t">>
    \o host_name \o <<".localdomain\t">> \o host_name
    \o <<"\nEOF\n\npacman -S ... --noconfirm --needed\n#mesa drivers\nif [ ">>
    \o gpu \o <<" -eq 0 ]; then ...\nelif [ ">>
    \o gpu \o <<" -eq 1 ]; then ...\nelif [ ">>
    \o gpu \o <<" -eq 2 ]; then ...\nelif [ ">>
    \o gpu \o <<" -eq 3 ]; then ...\nelif [ ">>
    \o gpu
    \o <<" -eq 4 ]; then ...\nelse ...\nfi\nsystemctl enable ...\n\nuseradd -m -G wheel,storage,power,audio,video ">>
    \o username
    \o <<"\nsed -i ... /etc/sudoers\necho ">>
    \o username \o <<":">> \o user_pass
    \o <<" | chpasswd\n\ngrub-install ...\ngrub-mkconfig -o /boot/grub/grub.cfg\n">>

\* Arch-Install-V2.py main: the f-string chroot_script (no gpu field)
chroot_script_V2(username, host_name, user_pass, root_pass, timezone) ==
       <<"#!/usr/bin/env bash\n\nset -e\n\nln -sf /usr/share/zoneinfo/">>
    \o timezone
    \o <<" /etc/localtime\nhwclock --systohc\nsed -i ... /etc/locale.gen\nlocale-gen\necho LANG >> /etc/locale.conf\necho \"">>
    \o host_name
    \o <<"\" >> /etc/hostname\necho root:">>
    \o root_pass
    \o <<" | chpasswd\n\ncat <<EOF > /etc/hosts\n127.0.0.1 localhost\n::1 localhost\n127.0.1.1\t">>
    \o host_name \o <<".localdomain\t">> \o host_name
    \o <<"\nEOF\n\npacman -S ... --noconfirm --needed\nsystemctl enable ...\n\nuseradd -m -G wheel,storage,power,audio,video ">>
    \o username
    \o <<"\nsed -i ... /etc/sudoers\necho ">>
    \o username \o <<":">> \o user_pass
    \o <<" | chpasswd\n\ngrub-install ...\ngrub-mkconfig -o /boot/grub/grub.cfg\n">>

ScScripts == {"Phases", "NewV2", "ArchInstallV2"}

ScInit ==
    /\ sc_script \in ScScripts
    /\ sc_pc = "args"
    /\ sc_args \in ScArgs
    /\ sc_file = <<>>
    /\ sc_log = <<>>

\* Phases chroot_config: write_file(Path("/mnt/chroot.sh"), chroot_script)
ScWritePhases ==
    /\ sc_script = "Phases"
    /\ sc_pc = "args"
    /\ sc_file' = chroot_script_Phases(sc_args.username, sc_args.host_name,
                      sc_args.user_pass, sc_args.root_pass, sc_args.timezone,
                      sc_args.gpu)
    /\ sc_pc' = "written"
    /\ UNCHANGED <<sc_script, sc_args, sc_log>>
    /\ ScFrame

\* New-V2 chroot_config: write_file(chroot_path, chroot_script)
ScWriteNewV2 ==
    /\ sc_script = "NewV2"
    /\ sc_pc = "args"
    /\ sc_file' = chroot_script_NewV2(sc_args.username, sc_args.host_name,
                      sc_args.user_pass, sc_args.root_pass, sc_args.timezone,
                      sc_args.gpu)
    /\ sc_pc' = "written"
    /\ UNCHANGED <<sc_script, sc_args, sc_log>>
    /\ ScFrame

\* V2 main: write_file(Path("/mnt/chroot.sh"), chroot_script)
ScWriteV2 ==
    /\ sc_script = "ArchInstallV2"
    /\ sc_pc = "args"
    /\ sc_file' = chroot_script_V2(sc_args.username, sc_args.host_name,
                      sc_args.user_pass, sc_args.root_pass, sc_args.timezone)
    /\ sc_pc' = "written"
    /\ UNCHANGED <<sc_script, sc_args, sc_log>>
    /\ ScFrame

\* crypt.mksalt(crypt.METHOD_SHA512): a random salt
Salts == { <<"a">>, <<"b">> }

\* the digest stands for SHA-512: one digit per character of the key, from
\* an alphabet no password is typed in
Digest(key) == [i \in 1..Len(key) |-> IF key[i] = Sentinel THEN "1" ELSE "0"]

\* crypt.crypt(word, salt) with a METHOD_SHA512 salt: "$6$<salt>$<digest>"
crypt(word, salt) == <<"$", "6", "$">> \o salt \o <<"$">> \o Digest(word)

\* input_text with the password as typed
chpasswd_plain_input(account, word, salt) == account \o <<":">> \o word \o <<"\n">>

\* Phases chroot_config: input_text=f"{account}:{hash}\n"
chpasswd_input(account, word, salt) ==
    account \o <<":">> \o crypt(word, salt) \o <<"\n">>

RunScriptArgv == <<"arch-chroot", "/mnt", "bash", "/chroot.sh">>
ChpasswdArgv == <<"arch-chroot", "/mnt", "chpasswd", "-e">>
RemoveScriptArgv == <<"rm", "-f", "/mnt/chroot.sh">>

\* Phases run_command(argv, input_text): the child gets the text on its
\* standard input; a non-zero status ends the process
ScRunCommand(argv, text, ok, next) ==
    /\ sc_log' = Append(sc_log, [argv |-> argv, input |-> text, ok |-> ok])
    /\ sc_pc' = IF ok THEN next ELSE "exited"
    /\ UNCHANGED <<sc_script, sc_args>>
    /\ ScFrame

\* Phases chroot_config: run_command(["arch-chroot","/mnt","bash","/chroot.sh"])
ScRunScript ==
    /\ sc_script = "Phases" /\ sc_pc = "written"
    /\ \E ok \in BOOLEAN : ScRunCommand(RunScriptArgv, <<>>, ok, "ran")
    /\ UNCHANGED sc_file

\* Phases chroot_config: chpasswd -e for root
ScChpasswdRoot ==
    /\ sc_script = "Phases" /\ sc_pc = "ran"
    /\ \E ok \in BOOLEAN, salt \in Salts :
          ScRunCommand(ChpasswdArgv,
                       chpasswd_input(<<"r","o","o","t">>, sc_args.root_pass, salt),
                       ok, "root_set")
    /\ UNCHANGED sc_file

\* Phases chroot_config: chpasswd -e for the new user
ScChpasswdUser ==
    /\ sc_script = "Phases" /\ sc_pc = "root_set"
    /\ \E ok \in BOOLEAN, salt \in Salts :
          ScRunCommand(ChpasswdArgv,
                       chpasswd_input(sc_args.username, sc_args.user_pass, salt),
                       ok, "user_set")
    /\ UNCHANGED sc_file

\* Phases chroot_config: run_command(["rm","-f","/mnt/chroot.sh"])
ScRemoveScript ==
    /\ sc_script = "Phases" /\ sc_pc = "user_set"
    /\ \E ok \in BOOLEAN :
          /\ ScRunCommand(RemoveScriptArgv, <<>>, ok, "removed")
          /\ sc_file' = IF ok THEN <<>> ELSE sc_file

ScNext ==
    \/ ScWritePhases \/ ScWriteNewV2 \/ ScWriteV2
    \/ ScRunScript \/ ScChpasswdRoot \/ ScChpasswdUser \/ ScRemoveScript

HasSentinel(pw) == \E i \in 1..Len(pw) : pw[i] = Sentinel

\* C4: the text of the generated second-stage script contains neither
\* password: a credential carrying the sentinel never appears in it.
C4_NoSecretInScript ==
    sc_pc = "written" =>
        /\ HasSentinel(sc_args.user_pass) => ~Contains(sc_file, sc_args.user_pass)
        /\ HasSentinel(sc_args.root_pass) => ~Contains(sc_file, sc_args.root_pass)

\* the positions of sc_log that hold a command with the given argv
IssuedAt(argv) == {i \in 1..Len(sc_log) : sc_log[i].argv = argv}

\* the text handed to chpasswd names the account and holds no typed password
HashedFor(entry, account, word) ==
    /\ StartsWith(entry.input, account \o <<":", "$", "6", "$">>)
    /\ entry.input # account \o <<":">> \o word \o <<"\n">>
    /\ HasSentinel(word) => ~Contains(entry.input, word)

\* C32: credentials are applied strictly after the second-stage script
\* succeeded and strictly before it is deleted, on the standard input of
\* chpasswd -e and as a hash, for root first and then for the user; when the
\* script fails no credential command is issued.
C32_CredentialsAfterScript ==
    /\ \A i \in IssuedAt(ChpasswdArgv) :
          /\ i \in {2, 3}
          /\ sc_log[1].argv = RunScriptArgv /\ sc_log[1].ok
          /\ \A j \in IssuedAt(RemoveScriptArgv) : i < j
          /\ i = 2 => HashedFor(sc_log[i], <<"r","o","o","t">>, sc_args.root_pass)
          /\ i = 3 => /\ sc_log[2].ok
                      /\ HashedFor(sc_log[i], sc_args.username, sc_args.user_pass)
    /\ (sc_log # <<>> /\ ~sc_log[1].ok) => Len(sc_log) = 1
    /\ sc_pc \in {"user_set", "removed"} =>
          /\ Cardinality(IssuedAt(ChpasswdArgv)) = 2
          /\ \A i \in IssuedAt(ChpasswdArgv) : sc_log[i].ok

\* both passwords were applied and the script is gone
C32_Witness ==
    /\ sc_script = "Phases" /\ sc_pc = "removed"
    /\ Len(sc_log) = 4 /\ sc_file = <<>>
    /\ HasSentinel(sc_args.root_pass) /\ HasSentinel(sc_args.user_pass)
    /\ sc_args.root_pass # sc_args.user_pass

----------------------------------------------------------------------------
(* get_install_config: values from the configuration file, prompts for     *)
(* the rest (Phases/user_input.py)                                         *)

CfOrder == <<"country", "username", "host_name", "user_pass", "root_pass",
             "timezone", "gpu">>
CfFields == {CfOrder[i] : i \in 1..Len(CfOrder)}

\* the key is missing from the JSON object
Absent == <<"<missing key>">>
Txt_CHANGE_ME == <<"C","H","A","N","G","E","_","M","E">>
Txt_empty == <<>>

\* len(name) <= 32 in _valid_username
UsernameMaxLen == 32
\* the {0,61} of the label pattern in _valid_hostname
HostnameMidMax == 61

UserFirstChars == LowerChars \cup {"_"}
UserRestChars  == LowerChars \cup DigitChars \cup {"_", "-"}
HostEdgeChars  == AlnumChars
HostMidChars   == AlnumChars \cup {"-"}

\* bool(re.fullmatch(r"[a-z_][a-z0-9_-]*", name)) and len(name) <= 32
valid_username(name) ==
    /\ Len(name) >= 1
    /\ name[1] \in UserFirstChars
    /\ AllIn(Tail(name), UserRestChars)
    /\ Len(name) <= UsernameMaxLen

\* re.fullmatch(r"[A-Za-z0-9](?:[A-Za-z0-9-]{0,61}[A-Za-z0-9])?", name)
valid_hostname(name) ==
    /\ Len(name) >= 1
    /\ name[1] \in HostEdgeChars
    /\ Len(name) >= 2 =>
          /\ name[Len(name)] \in HostEdgeChars
          /\ Len(name) - 2 <= HostnameMidMax
          /\ AllIn(SubSeq(name, 2, Len(name) - 1), HostMidChars)

\* the entries of /usr/share/zoneinfo on the live system
ZoneInfo == { <<"U","T","C">>, <<"A","s","i","a","/","T","e","h","r","a","n">> }

\* Path("/usr/share/zoneinfo").joinpath(tz).exists()
zone_exists(tz) == tz \in ZoneInfo

GpuValid == { <<"0">>, <<"1">>, <<"2">>, <<"3">>, <<"4">> }

\* what the configuration file may hold for each field
CfFileValues(f) ==
    CASE f = "country"   -> {Absent, Txt_CHANGE_ME, <<"I","r","a","n">>}
      [] f = "username"  -> {Absent, Txt_CHANGE_ME, <<"u","s","r">>, <<"1","u">>}
      [] f = "host_name" -> {Absent, Txt_CHANGE_ME, <<"p","c">>, <<"-","p","c">>}
      [] f = "user_pass" -> {Absent, Txt_CHANGE_ME, <<"u","!">>}
      [] f = "root_pass" -> {Absent, Txt_CHANGE_ME, <<"r","!">>}
      [] f = "timezone"  -> {Absent, Txt_CHANGE_ME, <<"U","T","C">>}
      [] OTHER           -> {Absent, Txt_CHANGE_ME, <<"4">>}

\* what the operator may type at the prompt of each field (for a password:
\* at either of its two prompts)
CfTypedLines(f) ==
    CASE f = "country"   -> {Txt_empty, <<" ","I","r","a","q"," ">>, Txt_CHANGE_ME}
      [] f = "username"  -> {Txt_empty, <<"_","a","b">>, Txt_CHANGE_ME}
      [] f = "host_name" -> {Txt_empty, <<"b","o","x">>, Txt_CHANGE_ME}
      [] f = "user_pass" -> {Txt_empty, <<"!","u">>, <<"u"," ">>, Txt_CHANGE_ME}
      [] f = "root_pass" -> {Txt_empty, <<"!","r">>, Txt_CHANGE_ME}
      [] f = "timezone"  -> {Txt_empty, <<"A","s","i","a","/","T","e","h","r","a","n">>,
                             Txt_CHANGE_ME}
      [] OTHER           -> {Txt_empty, <<"0">>, <<"5">>, Txt_CHANGE_ME}

\* str(raw.get(f, "")).strip()
raw_get(raw, f) == Strip(IF raw[f] = Absent THEN Txt_empty ELSE raw[f])

\* the test that lets the file's value stand, per field
file_value_accepted(f, v) ==
    CASE f = "country"   -> v # Txt_empty
      [] f = "username"  -> v # Txt_empty /\ valid_username(v)
      [] f = "host_name" -> v # Txt_empty /\ valid_hostname(v)
      [] f = "user_pass" -> v # Txt_empty /\ v # Txt_CHANGE_ME
      [] f = "root_pass" -> v # Txt_empty /\ v # Txt_CHANGE_ME
      [] f = "timezone"  -> v # Txt_empty /\ zone_exists(v)
      [] OTHER           -> v \in GpuValid

\* the value one round of the field's prompt function reads: input().strip(),
\* or for a password the first getpass() unstripped
prompt_value(f, line) ==
    IF f \in {"user_pass", "root_pass"} THEN line ELSE Strip(line)

\* whether that round returns (TRUE) or prints a message and loops (FALSE);
\* line2 is the re-entered password and is read for a password only
prompt_accepts(f, line, line2) ==
    LET v == prompt_value(f, line)
    IN  CASE f = "country"   -> v # Txt_empty
          [] f = "username"  -> valid_username(v)
          [] f = "host_name" -> valid_hostname(v)
          [] f = "user_pass" -> Len(v) >= 1 /\ v = line2
          [] f = "root_pass" -> Len(v) >= 1 /\ v = line2
          [] f = "timezone"  -> v # Txt_empty /\ zone_exists(v)
          [] OTHER           -> v \in GpuValid

CfDone == Len(CfOrder) + 1

\* the JSON objects _load_config_from_path may return
CfFiles ==
    [country : CfFileValues("country"), username : CfFileValues("username"),
     host_name : CfFileValues("host_name"), user_pass : CfFileValues("user_pass"),
     root_pass : CfFileValues("root_pass"), timezone : CfFileValues("timezone"),
     gpu : CfFileValues("gpu")]

CfInit ==
    /\ cf_raw \in CfFiles
    /\ cf_pc = 1
    /\ cf_config = [f \in CfFields |-> Txt_empty]
    /\ cf_prompted = {}
    /\ cf_first = <<>>

\* the file's value passes the field's test and is used
CfFromFile ==
    /\ cf_pc < CfDone
    /\ LET f == CfOrder[cf_pc]
           v == raw_get(cf_raw, f)
       IN  /\ file_value_accepted(f, v)
           /\ cf_config' = [cf_config EXCEPT ![f] = v]
    /\ cf_pc' = cf_pc + 1
    /\ UNCHANGED <<cf_raw, cf_prompted, cf_first>>
    /\ CfFrame

\* the field's prompt function accepts what the operator typed
CfPromptAccept ==
    /\ cf_pc < CfDone
    /\ LET f == CfOrder[cf_pc]
       IN  /\ ~file_value_accepted(f, raw_get(cf_raw, f))
           /\ \E line \in CfTypedLines(f), line2 \in CfTypedLines(f) :
                 /\ prompt_accepts(f, line, line2)
                 /\ cf_config' = [cf_config EXCEPT ![f] = prompt_value(f, line)]
           /\ cf_prompted' = cf_prompted \cup {f}
    /\ cf_pc' = cf_pc + 1
    /\ UNCHANGED <<cf_raw, cf_first>>
    /\ CfFrame

\* the field's prompt function rejects what the operator typed and asks again
CfPromptReject ==
    /\ cf_pc < CfDone
    /\ LET f == CfOrder[cf_pc]
       IN  /\ ~file_value_accepted(f, raw_get(cf_raw, f))
           /\ \E line \in CfTypedLines(f), line2 \in CfTypedLines(f) :
                 ~prompt_accepts(f, line, line2)
           /\ cf_prompted' = cf_prompted \cup {f}
    /\ UNCHANGED <<cf_raw, cf_pc, cf_config, cf_first>>
    /\ CfFrame

\* the returned InstallConfig is written out as the configuration file of a
\* second call of get_install_config
CfFeedBack ==
    /\ cf_pc = CfDone
    /\ cf_first = <<>>
    /\ cf_first' = cf_config
    /\ cf_raw' = cf_config
    /\ cf_pc' = 1
    /\ cf_config' = [f \in CfFields |-> Txt_empty]
    /\ cf_prompted' = {}
    /\ CfFrame

CfNext == CfFromFile \/ CfPromptAccept \/ CfPromptReject \/ CfFeedBack

\* C10: for every configuration-file field a value equal to the placeholder
\* CHANGE_ME is treated like an absent field: the field is prompted for, and
\* no field the operator was not asked for holds the placeholder in the
\* returned InstallConfig.
C10_PlaceholderIsAbsent ==
    (cf_pc = CfDone /\ cf_first = <<>>) =>
        \A f \in CfFields :
            /\ cf_raw[f] = Txt_CHANGE_ME => f \in cf_prompted
            /\ f \notin cf_prompted => cf_config[f] # Txt_CHANGE_ME

\* C11: when every field of the loaded configuration is valid,
\* get_install_config reads no input and returns those values; its result fed
\* back in is returned unchanged, again without a prompt; and a field is
\* prompted for only when the file's value is absent or invalid.
C11_ValidationIdempotent ==
    cf_pc = CfDone =>
        /\ \A f \in CfFields :
              (f \in cf_prompted) <=> ~file_value_accepted(f, raw_get(cf_raw, f))
        /\ \A f \in CfFields :
              f \notin cf_prompted => cf_config[f] = raw_get(cf_raw, f)
        /\ cf_first # <<>> => (cf_prompted = {} /\ cf_config = cf_first)

----------------------------------------------------------------------------
(* Operator input: how each installer reads one value and what it lets     *)
(* through to the commands and the generated script                        *)

\* longest typed line enumerated exhaustively over InAlphabet
MaxTypedLen == 3

InAlphabet == {"a", "_", "-", "1", "A", " ", ";"}

\* a line of n copies of c
Rep(c, n) == [i \in 1..n |-> c]

\* longer lines tried next to the exhaustive short ones
InLongLines ==
    { Rep("a", 32), Rep("a", 33), Rep("a", 63), Rep("a", 64),
      <<"U","T","C">>, <<"4">>, <<"s","d","a">>, <<"I","r","a","n">> }

InLines == SeqsUpTo(InAlphabet, MaxTypedLen) \cup InLongLines

\* 3 <= len(username) <= 32 and 2 <= len(hostname) <= 63 of Arch-Install-V2.py
V2UserMin == 3
V2UserMax == 32
V2HostMin == 2
V2HostMax == 63

\* Arch-Install-V2.py validate_username:
\* re.fullmatch(r"[a-z_][a-z0-9_-]*", username) and 3 <= len(username) <= 32
validate_username(username) ==
    /\ Len(username) >= 1
    /\ username[1] \in UserFirstChars
    /\ AllIn(Tail(username), UserRestChars)
    /\ V2UserMin <= Len(username) /\ Len(username) <= V2UserMax

\* Arch-Install-V2.py validate_hostname:
\* re.fullmatch(r"[a-zA-Z0-9]([a-zA-Z0-9-]*[a-zA-Z0-9])?", hostname)
\* and 2 <= len(hostname) <= 63
validate_hostname(hostname) ==
    /\ Len(hostname) >= 1
    /\ hostname[1] \in HostEdgeChars
    /\ Len(hostname) >= 2 =>
          /\ hostname[Len(hostname)] \in HostEdgeChars
          /\ AllIn(SubSeq(hostname, 2, Len(hostname) - 1), HostMidChars)
    /\ V2HostMin <= Len(hostname) /\ Len(hostname) <= V2HostMax

InScripts == {"Phases", "V2", "NewV2"}

PwFields == {"user_pass", "root_pass"}

\* the lines typed at a getpass prompt
PwLines == SeqsUpTo(PwAlphabet, MaxPwLen)

\* no second line was read
NotRead == <<"<not read>">>

\* the re-entered line the installer reads after line: _prompt_password of
\* Phases asks for it once the first line is not empty; V2 and New-V2 main
\* never ask
password_second(script, line, line2) ==
    IF script = "Phases" /\ Len(line) >= 1 THEN line2 ELSE NotRead

\* whether the installer keeps the typed password: _prompt_password of
\* Phases; `if not user_pass` of V2 main; the bare getpass of New-V2 main
password_accepts(script, line, line2) ==
    CASE script = "Phases" -> prompt_accepts("user_pass", line, line2)
      [] script = "V2"     -> line # <<>>
      [] OTHER             -> TRUE

\* the values each installer reads from the operator
InFieldsOf(script) ==
    CASE script = "Phases" -> {"country", "username", "host_name", "timezone", "gpu"}
                              \cup PwFields
      [] script = "V2"     -> {"country", "username", "host_name", "timezone", "disk"}
                              \cup PwFields
      [] OTHER             -> {"country", "username", "host_name", "timezone", "gpu",
                               "disk"} \cup PwFields

\* what the installer keeps of the typed line
in_read(script, field, line) ==
    IF script = "NewV2" /\ field = "disk" THEN Lower(Strip(line)) ELSE Strip(line)

\* whether the installer lets the value through (TRUE) or asks again (FALSE):
\* the _prompt_* functions of Phases; the two validated loops and
\* validate_disk_name of V2, whose country and timezone are taken as typed;
\* the bare input() calls of New-V2 main, and the name loop of its run_fdisk
in_accepts(script, field, line) ==
    LET v == in_read(script, field, line)
    IN  CASE script = "Phases" -> prompt_accepts(field, line, line)
          [] script = "V2" /\ field = "username"  -> validate_username(v)
          [] script = "V2" /\ field = "host_name" -> validate_hostname(v)
          [] script = "V2" /\ field = "disk"      -> validate_disk_name(v)
          [] script = "NewV2" /\ field = "disk"   -> run_fdisk_accepts(v)
          [] OTHER -> TRUE

InInit ==
    /\ in_script \in InScripts
    /\ in_field \in InFieldsOf(in_script)
    /\ in_pc = "prompt"
    /\ in_value = <<>>
    /\ in_second = NotRead

\* a line is typed and the installer lets it through
InAccept ==
    /\ in_field \notin PwFields
    /\ in_pc \in {"prompt", "reprompt"}
    /\ \E line \in InLines :
          /\ in_accepts(in_script, in_field, line)
          /\ in_value' = in_read(in_script, in_field, line)
    /\ in_pc' = "accepted"
    /\ UNCHANGED <<in_script, in_field, in_second>>
    /\ InFrame

\* a line is typed, the installer prints its message and asks again
InReject ==
    /\ in_field \notin PwFields
    /\ in_pc \in {"prompt", "reprompt"}
    /\ \E line \in InLines : ~in_accepts(in_script, in_field, line)
    /\ in_pc' = "reprompt"
    /\ UNCHANGED <<in_script, in_field, in_value, in_second>>
    /\ InFrame

\* the value is handed on: to reflector, fdisk, chroot_config or the script
InConsume ==
    /\ in_pc = "accepted"
    /\ in_pc' = "consumed"
    /\ UNCHANGED <<in_script, in_field, in_value, in_second>>
    /\ InFrame

\* a password is typed and kept: config.user_pass / config.root_pass is set
InPassword ==
    /\ in_field \in PwFields
    /\ in_pc \in {"prompt", "reprompt"}
    /\ \E line \in PwLines, line2 \in PwLines :
          /\ password_accepts(in_script, line, line2)
          /\ in_value' = line
          /\ in_second' = password_second(in_script, line, line2)
    /\ in_pc' = "password_set"
    /\ UNCHANGED <<in_script, in_field>>
    /\ InFrame

\* a password is typed and the prompt comes again: every time in
\* _prompt_password of Phases, once and after retry_prompt in V2
InPasswordAgain ==
    /\ in_field \in PwFields
    /\ in_pc \in {"prompt", "reprompt"}
    /\ in_script = "V2" => in_pc = "prompt"
    /\ \E line \in PwLines, line2 \in PwLines :
          /\ ~password_accepts(in_script, line, line2)
          /\ in_second' = password_second(in_script, line, line2)
    /\ in_pc' = "reprompt"
    /\ UNCHANGED <<in_script, in_field, in_value>>
    /\ InFrame

\* V2 main: the password is empty and retry_prompt was refused, or it is
\* empty again: raise InstallError
InPasswordRaise ==
    /\ in_script = "V2" /\ in_field \in PwFields
    /\ in_pc \in {"prompt", "reprompt"}
    /\ \E line \in PwLines : ~password_accepts(in_script, line, NotRead)
    /\ in_pc' = "raised"
    /\ UNCHANGED <<in_script, in_field, in_value, in_second>>
    /\ InFrame

InNext ==
    \/ InAccept \/ InReject \/ InConsume
    \/ InPassword \/ InPasswordAgain \/ InPasswordRaise

\* C12: every username that reaches the pipeline starts with a letter or an
\* underscore and has 3 to 32 characters, and every hostname label has 2 to
\* 63 characters; a value outside these bounds is asked for again.
C12_NameLengthBounds ==
    in_pc = "consumed" =>
        /\ in_field = "username" =>
              /\ 3 <= Len(in_value) /\ Len(in_value) <= 32
              /\ in_value[1] \in LowerChars \cup UpperChars \cup {"_"}
        /\ in_field = "host_name" =>
              (2 <= Len(in_value) /\ Len(in_value) <= 63)

\* C33: a prompted password is kept only if it is not empty and equal to
\* its re-entered confirmation; the run never goes on with an empty or an
\* unconfirmed password.
C33_PasswordConfirmed ==
    (in_field \in PwFields /\ in_pc = "password_set") =>
        /\ in_value # <<>>
        /\ in_second = in_value

\* the test a value of each field has to pass somewhere in the repository
passes_validator(field, v) ==
    CASE field = "country"   -> v # Txt_empty
      [] field = "username"  -> valid_username(v)
      [] field = "host_name" -> valid_hostname(v)
      [] field = "timezone"  -> v # Txt_empty /\ zone_exists(v)
      [] field = "gpu"       -> v \in GpuValid
      [] OTHER               -> validate_disk_name(v)

\* C13: no operator-supplied value (country, timezone, hostname, username,
\* GPU choice, disk name) is handed to a command or interpolated into the
\* second-stage script before it has passed its validator.
C13_ValidatedBeforeConsumed ==
    in_pc = "consumed" => passes_validator(in_field, in_value)

----------------------------------------------------------------------------
(* The fstab step: how each installer puts the mount-table generator's     *)
(* output into /mnt/etc/fstab                                              *)

\* how many times the step is run against one mounted target
MaxFstabRuns == 3

\* what genfstab -U /mnt may print, one element per entry
GenfstabOutputs ==
    { <<"/">>,
      <<"/", "/boot">>,
      <<"/", "/home", "/var", "/.snapshots", "/boot">>,
      <<"/", "/home", "/var", "/.snapshots", "/boot", "swap">> }

\* Phases base_install: write_file(Path("/mnt/etc/fstab"), fstab_content)
\* (path.write_text replaces the file's content)
fstab_write_Phases(content, out) == <<out>>

\* New-V2 base_install: etc_fstab.write_text(result.stdout)
fstab_write_NewV2(content, out) == <<out>>

\* v1 main: open("/mnt/etc/fstab", "a") as the generator's stdout
fstab_write_v1(content, out) == Append(content, out)

\* V2 main: run_command(["genfstab", "-U", "/mnt", "-f", "/mnt/etc/fstab"]);
\* -f is the generator's mount-point filter, its output goes to the
\* terminal and the file is not written
fstab_write_V2(content, out) == content

fstab_write(script, content, out) ==
    CASE script = "Phases" -> fstab_write_Phases(content, out)
      [] script = "NewV2"  -> fstab_write_NewV2(content, out)
      [] script = "V2"     -> fstab_write_V2(content, out)
      [] OTHER             -> fstab_write_v1(content, out)

FsScripts == {"Phases", "NewV2", "V2", "v1"}

FsInit ==
    /\ fs_script \in FsScripts
    /\ fs_content = <<>>
    /\ fs_runs = 0

\* the step runs (again) on the target: a retry, or a re-run of the installer
\* while the target is still mounted
FsStep ==
    /\ fs_runs < MaxFstabRuns
    /\ \E out \in GenfstabOutputs :
          fs_content' = fstab_write(fs_script, fs_content, out)
    /\ fs_runs' = fs_runs + 1
    /\ UNCHANGED fs_script
    /\ FsFrame

FsNext == FsStep

\* C9: after the fstab step, however often it ran on the same target,
\* /etc/fstab holds exactly one copy of the generator's output.
C9_FstabOneCopy ==
    fs_runs >= 1 => Len(fs_content) = 1

----------------------------------------------------------------------------
(* The installation pipeline: main() of each installer as a program of     *)
(* steps, and the failure policy of each installer's run_command           *)

\* nested main() calls the V2 retry branch may make (the code sets no limit)
MaxMainDepth == 1

\* run_command(..., retries: int = 2) of Arch-Install-V2.py
RunRetries == 2
\* `if attempt < 2 and retry_prompt(...)` of the while loops of V2 main
LoopRetries == 2

NoExit == <<>>
Exit(n) == <<n>>

\* non-zero statuses an external command may return
FailCodes == {1, 32}

Variants == {"V2", "Phases", "NewV2", "v1"}

\* mkfs ... mount: the same sixteen commands in every installer
FsSteps ==
    << "mkfs.fat", "mkswap", "swapon", "mkfs.btrfs",
       "mount_top", "subvol_root", "subvol_home", "subvol_var",
       "subvol_snapshots", "umount_top",
       "mount_root", "mkdir", "mount_home", "mount_var", "mount_snapshots",
       "mount_boot" >>

PacmanSteps == << "pacman_Syy", "pacman_key_init", "pacman_key_populate" >>

\* Arch-Install-V2.py main
V2Program ==
    << "preflight", "net_check", "deps", "confirm_destroy", "disk_input",
       "disk_space", "confirm_gpt", "fdisk", "creds", "reflector" >>
    \o PacmanSteps \o FsSteps
    \o << "pacstrap", "genfstab", "write_chroot", "arch_chroot" >>

\* New-V2/main.py main: run_fdisk, base_install, chroot_config of New-V2/phases
NewV2Program ==
    << "preflight", "deps", "inputs", "disk_input", "confirm_gpt", "fdisk" >>
    \o FsSteps
    \o << "reflector" >> \o PacmanSteps
    \o << "pacstrap", "genfstab_write", "write_chroot", "arch_chroot",
          "rm_chroot", "confirm_reboot", "reboot" >>

\* Phases/check_requirements.py: checkUEFI, require_root, ensure_dependencies
PhasesRequirements == << "preflight", "deps" >>

\* Phases/fdisk_setup.py: run_fdisk (name, confirmation, fdisk, then the
\* filesystem commands)
PhasesRunFdisk == << "disk_input", "confirm_gpt", "fdisk" >> \o FsSteps

\* main.py main: base_install, chroot_config, configure_resume of Phases
PhasesProgram ==
    PhasesRequirements \o << "get_install_config" >> \o PhasesRunFdisk
    \o << "reflector" >> \o PacmanSteps
    \o << "pacstrap", "genfstab", "write_fstab", "write_chroot", "arch_chroot",
          "chpasswd_root", "chpasswd_user", "rm_chroot",
          "write_resume", "arch_chroot_resume", "rm_resume",
          "confirm_reboot", "reboot" >>

\* arch_install_v1.py main
v1Program ==
    << "preflight", "deps", "inputs", "reflector" >> \o PacmanSteps
    \o << "lsblk", "disk_input" >>
    \o FsSteps
    \o << "pacstrap", "genfstab", "fstab_append", "write_chroot", "arch_chroot" >>

Program(v) ==
    CASE v = "V2"     -> V2Program
      [] v = "Phases" -> PhasesProgram
      [] v = "NewV2"  -> NewV2Program
      [] OTHER        -> v1Program

ElemsOf(seq) == {seq[i] : i \in 1..Len(seq)}

\* the step at pc, or "end" past the last one
Step == IF pc <= Len(Program(variant)) THEN Program(variant)[pc] ELSE "end"

\* the index of step s in the program of v (0 when it has none)
IndexOf(v, s) ==
    IF s \in ElemsOf(Program(v))
    THEN CHOOSE i \in 1..Len(Program(v)) : Program(v)[i] = s
    ELSE 0

CheckSteps     == {"preflight", "deps"}
SoftCheckSteps == {"net_check", "disk_space"}
InputSteps     == {"inputs", "get_install_config", "disk_input", "creds"}
ConfirmSteps   == {"confirm_destroy", "confirm_gpt"}
WriteSteps     == {"write_fstab", "write_chroot", "write_resume"}
\* subprocess.run(..., check=True) called directly, outside run_command
DirectSteps    == {"genfstab_write", "fstab_append"}

\* the steps that are one call of the installer's run_command
CommandSteps(v) ==
    (ElemsOf(Program(v))
        \ (CheckSteps \cup SoftCheckSteps \cup InputSteps \cup ConfirmSteps
           \cup WriteSteps \cup DirectSteps \cup {"confirm_reboot"}))
    \ (IF v \in {"Phases", "NewV2"} THEN {"reflector"} ELSE {})

\* commands that change the disk, the swap or the mount table
DestructiveSteps ==
    {"fdisk", "mkfs.fat", "mkswap", "swapon", "mkfs.btrfs", "mount_top",
     "mount_root", "mount_home", "mount_var", "mount_snapshots", "mount_boot"}

\* the resource a step's command acquires when it succeeds
AcquiredBy(s) ==
    CASE s = "swapon"          -> "swap"
      [] s = "mount_top"       -> "/mnt"
      [] s = "mount_root"      -> "/mnt"
      [] s = "mount_home"      -> "/mnt/home"
      [] s = "mount_var"       -> "/mnt/var"
      [] s = "mount_snapshots" -> "/mnt/.snapshots"
      [] s = "mount_boot"      -> "/mnt/boot"
      [] OTHER                 -> "none"

RECURSIVE RemoveLast(_, _)
RemoveLast(seq, x) ==
    IF seq = <<>> THEN <<>>
    ELSE IF seq[Len(seq)] = x THEN SubSeq(seq, 1, Len(seq) - 1)
    ELSE Append(RemoveLast(SubSeq(seq, 1, Len(seq) - 1), x), seq[Len(seq)])

RECURSIVE Reverse(_)
Reverse(seq) ==
    IF seq = <<>> THEN <<>>
    ELSE Append(Reverse(Tail(seq)), Head(seq))

SelectMounts(seq) == SelectSeq(seq, LAMBDA r : r # "swap")

\* mounts and swap after the command of step s succeeded
ActiveAfter(s, act) ==
    IF AcquiredBy(s) # "none" THEN Append(act, AcquiredBy(s))
    ELSE IF s = "umount_top" THEN RemoveLast(act, "/mnt")
    ELSE act

\* generated scripts in the target root after step s succeeded
FilesAfter(s, fl) ==
    CASE s = "write_chroot" -> fl \cup {"/mnt/chroot.sh"}
      [] s = "rm_chroot"    -> fl \ {"/mnt/chroot.sh"}
      [] s = "write_resume" -> fl \cup {"/mnt/resume_setup.sh"}
      [] s = "rm_resume"    -> fl \ {"/mnt/resume_setup.sh"}
      [] OTHER              -> fl

\* the generator's output in a run that mounted the full layout
GenfstabFull == <<"/", "/home", "/var", "/.snapshots", "/boot", "swap">>

\* /mnt/etc/fstab after step s succeeded
FstabAfter(v, s, content) ==
    IF \/ (v = "Phases" /\ s = "write_fstab")
       \/ (v = "NewV2" /\ s = "genfstab_write")
       \/ (v = "V2" /\ s = "genfstab")
       \/ (v = "v1" /\ s = "fstab_append")
    THEN fstab_write(v, content, GenfstabFull)
    ELSE content

\* which handler of V2 main an InstallError raised at step s reaches
V2Region(s) ==
    CASE s = "reflector" -> "reflector"
      [] s \in ElemsOf(FsSteps) -> "fsblock"
      [] s \in {"pacstrap", "genfstab", "arch_chroot"} -> "loop"
      [] OTHER -> "top"

Running == exit_code = NoExit

\* a step that is not an external command leaves `executed` alone
Spawned(s) == IF s \in WriteSteps THEN executed ELSE executed \cup {s}

\* InstallProgress(15): the total main declares for its progress display
total_steps == 15

\* InstallProgress.update: one more step is shown as done
InstallProgress_update(n) == n + 1

\* V2 main: how many progress.update calls stand between the command of the
\* step before s and the command of s ("end": the return of main)
UpdatesBefore(s) ==
    CASE s = "creds" -> 2
      [] s \in {"fdisk", "reflector", "pacman_Syy", "mkfs.fat", "mount_top",
                "mount_root", "pacstrap", "genfstab", "write_chroot",
                "arch_chroot", "end"} -> 1
      [] OTHER -> 0

RECURSIVE UpdateTimes(_, _)
UpdateTimes(k, n) ==
    IF k = 0 THEN n ELSE UpdateTimes(k - 1, InstallProgress_update(n))

\* current_step once control stands at step p: a retry stays where it is, a
\* new call of main() has a new InstallProgress, the next step adds the
\* updates in front of it
ProgressAt(p) ==
    IF variant # "V2" \/ p = pc THEN current_step
    ELSE IF p < pc THEN 0
    ELSE UpdateTimes(UpdatesBefore(IF p <= Len(V2Program) THEN V2Program[p]
                                   ELSE "end"), current_step)

\* control moves to step p with the two attempt counters as given
Goto(p, a, l) ==
    /\ pc' = p /\ attempt' = a /\ loop_attempt' = l
    /\ current_step' = ProgressAt(p)

\* the process ends with status code, after a command returned rc
EndRc(code, f, d, rc) ==
    /\ exit_code' = Exit(code)
    /\ fatal' = f
    /\ declined' = d
    /\ cmd_rc' = rc
    /\ UNCHANGED <<pc, attempt, loop_attempt, current_step>>

\* the process ends with status code
End(code, f, d) == EndRc(code, f, d, cmd_rc)

\* V2: InstallError reaches main's handler, which prints it and calls
\* sys.exit(1) whatever the failed command returned
V2Exit(rc) == EndRc(1, Step, "none", IF Step \in WriteSteps THEN cmd_rc ELSE rc)

StillRunning == UNCHANGED <<exit_code, fatal, declined, cmd_rc>>

\* what the step's success does to the machine and the target root
EnvAfter(s) ==
    /\ active' = ActiveAfter(s, active)
    /\ files' = FilesAfter(s, files)
    /\ fstab' = FstabAfter(variant, s, fstab)

EnvSame == UNCHANGED <<active, files, fstab>>

\* untouched by every step of main()
PpFixed ==
    /\ UNCHANGED <<variant, auto_yes, dry_run, released, snapshot, umount_ok,
                   interrupted>>
    /\ PpFrame

PpInit ==
    /\ variant \in Variants
    /\ pc = 1
    /\ exit_code = NoExit
    /\ auto_yes \in (IF variant \in {"V2", "Phases"} THEN BOOLEAN ELSE {FALSE})
    /\ dry_run \in (IF variant = "V2" THEN BOOLEAN ELSE {FALSE})
    /\ attempt = 0
    /\ loop_attempt = 0
    /\ current_step = 0
    /\ depth = 0
    /\ active = <<>>
    /\ released = <<>>
    /\ snapshot = <<>>
    /\ umount_ok = FALSE
    /\ executed = {}
    /\ confirmed = {}
    /\ declined = "none"
    /\ fatal = "none"
    /\ cmd_rc = 0
    /\ interrupted = FALSE
    /\ refl_outcome = "none"
    /\ fstab = <<>>
    /\ files = {}

\* require_root / checkUEFI / the dependency loop find nothing wrong
PpCheckOk ==
    /\ Running /\ Step \in CheckSteps
    /\ Goto(pc + 1, 0, 0)
    /\ StillRunning /\ EnvSame /\ PpFixed
    /\ UNCHANGED <<depth, executed, confirmed, refl_outcome>>

\* a check fails: sys.exit(1), or in V2 an InstallError that main turns
\* into sys.exit(1)
PpCheckFail ==
    /\ Running /\ Step \in CheckSteps
    /\ End(1, Step, "none")
    /\ EnvSame /\ PpFixed
    /\ UNCHANGED <<depth, executed, confirmed, refl_outcome>>

\* V2: check_network_connectivity / check_disk_space; when the check fails
\* confirm() decides, and a refusal returns from main
PpSoftCheck ==
    /\ Running /\ variant = "V2" /\ Step \in SoftCheckSteps
    /\ \E ok \in BOOLEAN, answer \in BOOLEAN :
          \/ /\ ok
             /\ Goto(pc + 1, 0, 0) /\ StillRunning
             /\ UNCHANGED confirmed
          \/ /\ ~ok /\ answer
             /\ Goto(pc + 1, 0, 0) /\ StillRunning
             /\ confirmed' = confirmed \cup {Step}
          \/ /\ ~ok /\ ~answer
             /\ End(0, "none", Step)
             /\ UNCHANGED confirmed
    /\ EnvSame /\ PpFixed
    /\ UNCHANGED <<depth, executed, refl_outcome>>

\* the operator's values are read (each prompt loops until its test passes)
PpInput ==
    /\ Running /\ Step \in InputSteps
    /\ Goto(pc + 1, 0, 0)
    /\ StillRunning /\ EnvSame /\ PpFixed
    /\ UNCHANGED <<depth, executed, confirmed, refl_outcome>>

\* V2: a password left empty twice raises InstallError
PpCredsEmpty ==
    /\ Running /\ variant = "V2" /\ Step = "creds"
    /\ End(1, Step, "none")
    /\ EnvSame /\ PpFixed
    /\ UNCHANGED <<depth, executed, confirmed, refl_outcome>>

\* whether confirm() returns True without reading: V2 tests
\* config.auto_confirm before calling it, Phases' confirm tests is_auto_yes()
AutoConfirms == variant \in {"V2", "Phases"} /\ auto_yes

\* the destruction warning / GPT confirmation, answered by the flag
PpConfirmAuto ==
    /\ Running /\ Step \in ConfirmSteps /\ AutoConfirms
    /\ Goto(pc + 1, 0, 0)
    /\ StillRunning /\ EnvSame /\ PpFixed
    /\ UNCHANGED <<depth, executed, confirmed, refl_outcome>>

\* the operator answers y / yes
PpConfirmYes ==
    /\ Running /\ Step \in ConfirmSteps /\ ~AutoConfirms
    /\ confirmed' = confirmed \cup {Step}
    /\ Goto(pc + 1, 0, 0)
    /\ StillRunning /\ EnvSame /\ PpFixed
    /\ UNCHANGED <<depth, executed, refl_outcome>>

\* any other answer: "Aborted." and return (V2) or sys.exit(0)
PpConfirmNo ==
    /\ Running /\ Step \in ConfirmSteps /\ ~AutoConfirms
    /\ End(0, "none", Step)
    /\ EnvSame /\ PpFixed
    /\ UNCHANGED <<depth, executed, confirmed, refl_outcome>>

\* main: if confirm("Do you want to reboot?"): run_command(["reboot"])
PpConfirmReboot ==
    /\ Running /\ Step = "confirm_reboot"
    /\ \/ /\ variant = "Phases" /\ auto_yes
          /\ Goto(pc + 1, 0, 0) /\ UNCHANGED confirmed
       \/ /\ ~(variant = "Phases" /\ auto_yes)
          /\ \E answer \in BOOLEAN :
                IF answer
                THEN Goto(pc + 1, 0, 0) /\ confirmed' = confirmed \cup {Step}
                ELSE Goto(pc + 2, 0, 0) /\ UNCHANGED confirmed
    /\ StillRunning /\ EnvSame /\ PpFixed
    /\ UNCHANGED <<depth, executed, refl_outcome>>

\* run_command: the external command returns 0
PpCommandOk ==
    /\ Running /\ Step \in CommandSteps(variant)
    /\ executed' = executed \cup {Step}
    /\ EnvAfter(Step)
    /\ Goto(pc + 1, 0, 0)
    /\ StillRunning /\ PpFixed
    /\ UNCHANGED <<depth, confirmed, refl_outcome>>

\* run_command of Phases, New-V2 and v1: the command returns non-zero and
\* the process exits with that status (sys.exit(error.returncode))
PpCommandExit ==
    /\ Running /\ variant # "V2" /\ Step \in CommandSteps(variant)
    /\ executed' = executed \cup {Step}
    /\ \E rc \in FailCodes : EndRc(rc, Step, "none", rc)
    /\ refl_outcome' = IF Step = "reflector" THEN "exited" ELSE refl_outcome
    /\ EnvSame /\ PpFixed
    /\ UNCHANGED <<depth, confirmed>>

\* ---- Arch-Install-V2.py: run_command's retry prompt and the handlers of main

\* the steps V2 runs through a retry loop of its own (run_command, write_file)
V2RetrySteps == CommandSteps("V2") \cup {"write_chroot"}

V2Fails == Running /\ variant = "V2" /\ Step \in V2RetrySteps

\* the retry prompt offered once more than `retries` allows
\* (`attempt <= retries` where the code tests `attempt < retries`)
V2RetryCommandOffByOne ==
    /\ V2Fails
    /\ attempt <= RunRetries
    /\ executed' = Spawned(Step)
    /\ Goto(pc, attempt + 1, loop_attempt)
    /\ StillRunning /\ EnvSame /\ PpFixed
    /\ UNCHANGED <<depth, confirmed, refl_outcome>>

\* run_command / write_file: the call fails, attempt < retries and the
\* operator answers the retry prompt with yes: the same call is made again
V2RetryCommand ==
    /\ V2Fails
    /\ attempt < RunRetries
    /\ executed' = Spawned(Step)
    /\ Goto(pc, attempt + 1, loop_attempt)
    /\ StillRunning /\ EnvSame /\ PpFixed
    /\ UNCHANGED <<depth, confirmed, refl_outcome>>

\* the call fails for good (retries used up, or the retry prompt refused) where
\* no handler but main's own surrounds it: print_error and sys.exit(1)
V2RaiseTop ==
    /\ V2Fails /\ V2Region(Step) = "top"
    /\ executed' = Spawned(Step)
    /\ \E rc \in FailCodes : V2Exit(rc)
    /\ EnvSame /\ PpFixed
    /\ UNCHANGED <<depth, confirmed, refl_outcome>>

\* ... inside one of the `while attempt < 3` loops, attempt < 2 and the
\* operator accepts the loop's retry prompt: run_command is called afresh
V2LoopRetry ==
    /\ V2Fails /\ V2Region(Step) \in {"loop", "reflector"}
    /\ loop_attempt < LoopRetries
    /\ executed' = Spawned(Step)
    /\ Goto(pc, 0, loop_attempt + 1)
    /\ StillRunning /\ EnvSame /\ PpFixed
    /\ UNCHANGED <<depth, confirmed, refl_outcome>>

\* ... inside the pacstrap / genfstab / arch-chroot loop with no retry left
\* or the retry refused: InstallError is raised again and main exits with 1
V2LoopRaise ==
    /\ V2Fails /\ V2Region(Step) = "loop"
    /\ executed' = Spawned(Step)
    /\ \E rc \in FailCodes : V2Exit(rc)
    /\ EnvSame /\ PpFixed
    /\ UNCHANGED <<depth, confirmed, refl_outcome>>

\* ... inside the reflector loop with no retry left or the retry refused:
\* confirm("Continue with the installation?") is answered yes, and the loop
\* is left by break
V2ReflectorContinue ==
    /\ V2Fails /\ V2Region(Step) = "reflector"
    /\ executed' = Spawned(Step)
    /\ refl_outcome' = "continued"
    /\ confirmed' = confirmed \cup {"continue"}
    /\ Goto(pc + 1, 0, 0)
    /\ StillRunning /\ EnvSame /\ PpFixed
    /\ UNCHANGED depth

\* ... and the operator answers anything else: "Aborted." and return
V2ReflectorAbort ==
    /\ V2Fails /\ V2Region(Step) = "reflector"
    /\ executed' = Spawned(Step)
    /\ refl_outcome' = "aborted"
    /\ End(0, "none", "continue")
    /\ EnvSame /\ PpFixed
    /\ UNCHANGED <<depth, confirmed>>

\* ... inside the try block of the filesystem commands and the operator
\* accepts "Partitioning/mounting failed ... retry?": main() is called again
\* from its first line, and its caller returns when it returns
V2FsRetryMain ==
    /\ V2Fails /\ V2Region(Step) = "fsblock"
    /\ depth < MaxMainDepth
    /\ executed' = Spawned(Step)
    /\ depth' = depth + 1
    /\ Goto(1, 0, 0)
    /\ refl_outcome' = "none"
    /\ StillRunning /\ EnvSame /\ PpFixed
    /\ UNCHANGED confirmed

\* ... and the operator refuses: InstallError is raised again, main exits with 1
V2FsRaise ==
    /\ V2Fails /\ V2Region(Step) = "fsblock"
    /\ executed' = Spawned(Step)
    /\ \E rc \in FailCodes : V2Exit(rc)
    /\ EnvSame /\ PpFixed
    /\ UNCHANGED <<depth, confirmed, refl_outcome>>

\* signal_handler: umount -R /mnt with check=False, then sys.exit(1).  A
\* recursive umount detaches the mounts below /mnt child-first; nothing in
\* the handler touches swap.  With nothing mounted at /mnt the command
\* returns non-zero, and with something mounted it may (target busy).
umount_results(act) == IF SelectMounts(act) # <<>> THEN BOOLEAN ELSE {FALSE}

signal_handler_release(act, ok) ==
    IF ok THEN Reverse(SelectMounts(act)) ELSE <<>>

signal_handler_left(act, ok) ==
    IF ok THEN SelectSeq(act, LAMBDA r : r = "swap") ELSE act

\* SIGINT or SIGTERM arrives while V2 runs
V2Interrupt ==
    /\ Running /\ variant = "V2"
    /\ interrupted' = TRUE
    /\ snapshot' = active
    /\ \E ok \in umount_results(active) :
          /\ umount_ok' = ok
          /\ released' = released \o signal_handler_release(active, ok)
          /\ active' = signal_handler_left(active, ok)
    /\ exit_code' = Exit(1)
    /\ UNCHANGED <<variant, auto_yes, dry_run, pc, attempt, loop_attempt, depth,
                   executed, confirmed, declined, fatal, cmd_rc, refl_outcome,
                   fstab, files, current_step>>
    /\ PpFrame

\* ---- base_install of Phases and New-V2: reflector through subprocess.run

DirectReflector == Running /\ variant \in {"Phases", "NewV2"} /\ Step = "reflector"

\* whether confirm() of the installer returns True without reading
ConfirmIsAuto == variant = "Phases" /\ auto_yes

\* subprocess.run(["reflector", ...], check=True) returns
PpReflectorOk ==
    /\ DirectReflector
    /\ executed' = executed \cup {Step}
    /\ Goto(pc + 1, 0, 0)
    /\ StillRunning /\ EnvSame /\ PpFixed
    /\ UNCHANGED <<depth, confirmed, refl_outcome>>

\* the refresh's failure handled as run_command handles any other failure:
\* the process exits with status 1 and no question is asked
PpReflectorFailExits ==
    /\ DirectReflector
    /\ executed' = executed \cup {Step}
    /\ refl_outcome' = "exited"
    /\ End(1, Step, "none")
    /\ EnvSame /\ PpFixed
    /\ UNCHANGED <<depth, confirmed>>

\* it raises CalledProcessError or FileNotFoundError; the warning is printed
\* and confirm("Do you want to continue with the installation?") is True
PpReflectorFailContinue ==
    /\ DirectReflector
    /\ executed' = executed \cup {Step}
    /\ refl_outcome' = "continued"
    /\ confirmed' = IF ConfirmIsAuto THEN confirmed ELSE confirmed \cup {"continue"}
    /\ Goto(pc + 1, 0, 0)
    /\ StillRunning /\ EnvSame /\ PpFixed
    /\ UNCHANGED depth

\* ... and confirm() is False: "Aborted." and sys.exit(0)
PpReflectorFailAbort ==
    /\ DirectReflector /\ ~ConfirmIsAuto
    /\ executed' = executed \cup {Step}
    /\ refl_outcome' = "aborted"
    /\ End(0, "none", "continue")
    /\ EnvSame /\ PpFixed
    /\ UNCHANGED <<depth, confirmed>>

\* ---- the fstab step where it is not a run_command call

\* New-V2: genfstab through subprocess.run, then write_text;
\* v1: genfstab with /mnt/etc/fstab opened for append as its stdout
PpDirectOk ==
    /\ Running /\ Step \in DirectSteps
    /\ executed' = executed \cup {Step}
    /\ EnvAfter(Step)
    /\ Goto(pc + 1, 0, 0)
    /\ StillRunning /\ PpFixed
    /\ UNCHANGED <<depth, confirmed, refl_outcome>>

\* New-V2: CalledProcessError is caught, sys.exit(1); v1: it is not caught
\* and the interpreter ends with status 1
PpDirectFail ==
    /\ Running /\ Step \in DirectSteps
    /\ executed' = executed \cup {Step}
    /\ End(1, Step, "none")
    /\ EnvSame /\ PpFixed
    /\ UNCHANGED <<depth, confirmed, refl_outcome>>

\* write_file writes /mnt/etc/fstab, /mnt/chroot.sh or /mnt/resume_setup.sh
PpWriteOk ==
    /\ Running /\ Step \in WriteSteps
    /\ EnvAfter(Step)
    /\ Goto(pc + 1, 0, 0)
    /\ StillRunning /\ PpFixed
    /\ UNCHANGED <<depth, executed, confirmed, refl_outcome>>

\* write_file of Phases and New-V2 catches the exception: sys.exit(1); that
\* of v1 lets it end the interpreter, with status 1 as well
PpWriteFail ==
    /\ Running /\ variant # "V2" /\ Step \in WriteSteps
    /\ End(1, Step, "none")
    /\ EnvSame /\ PpFixed
    /\ UNCHANGED <<depth, executed, confirmed, refl_outcome>>

\* main returns: the process ends with status 0
PpFinish ==
    /\ Running /\ Step = "end"
    /\ End(0, "none", "none")
    /\ EnvSame /\ PpFixed
    /\ UNCHANGED <<depth, executed, confirmed, refl_outcome>>

PpNext ==
    \/ PpCheckOk \/ PpCheckFail \/ PpSoftCheck \/ PpInput \/ PpCredsEmpty
    \/ PpConfirmAuto \/ PpConfirmYes \/ PpConfirmNo \/ PpConfirmReboot
    \/ PpCommandOk \/ PpCommandExit
    \/ V2RetryCommand \/ V2RaiseTop \/ V2LoopRetry \/ V2LoopRaise
    \/ V2ReflectorContinue \/ V2ReflectorAbort \/ V2FsRetryMain \/ V2FsRaise
    \/ V2Interrupt
    \/ PpReflectorOk \/ PpReflectorFailContinue \/ PpReflectorFailAbort
    \/ PpDirectOk \/ PpDirectFail \/ PpWriteOk \/ PpWriteFail
    \/ PpFinish

----------------------------------------------------------------------------
(* Properties of the installation pipeline                                  *)

\* the run ended because a command failed for good
Failed == exit_code # NoExit /\ fatal # "none"

\* C2: when the dry-run flag is set the run stops after the confirmation
\* stage: no fdisk, mkfs.fat, mkfs.btrfs, mkswap, swapon or mount is executed.
C2_DryRunExecutesNothing ==
    dry_run => executed \cap DestructiveSteps = {}

\* C3: where forced-yes is not active, a destructive command (fdisk, or
\* mkfs/mkswap where the script does no partitioning) is executed only after
\* the prompt of the disk-destruction warning returned true.
C3_DestructiveNeedsConfirm ==
    (~AutoConfirms /\ executed \cap DestructiveSteps # {})
        => confirmed \cap ConfirmSteps # {}

\* C5: once a fatal failure has been handled, none of the swap areas and
\* mount points the run activated is still active.
C5_RollbackComplete ==
    Failed => active = <<>>

\* the handler's umount did not fail on an existing mount
HandlerUnhindered == umount_ok \/ SelectMounts(snapshot) = <<>>

\* C6: after an interrupt the handler has released every mount and every
\* swap area the run acquired, and the process has exited with a non-zero
\* status (in the runs where no command of the handler was hindered).
C6_InterruptReleasesAll ==
    (interrupted /\ HandlerUnhindered)
        => (active = <<>> /\ exit_code # NoExit /\ exit_code # Exit(0))

\* C7: the resources the run had acquired are released in exactly the reverse
\* of their acquisition order, each of them once (in the runs where no
\* command of the handler was hindered).
C7_ReleaseInReverseOrder ==
    (interrupted /\ HandlerUnhindered) => released = Reverse(snapshot)

\* C14: when a destructive command (fdisk, mkfs, mkswap, swapon, mount)
\* fails and is not retried further, the process exits with that command's
\* own exit code.
C14_ExitWithCommandCode ==
    (Failed /\ fatal \in DestructiveSteps) => exit_code = Exit(cmd_rc)

\* C15: a run the operator aborts by declining a confirmation ends with
\* exit status 1, and exit status 0 is produced only by a run that completed
\* the installation.
C15_DeclineExitsOne ==
    exit_code # NoExit =>
        /\ declined # "none" => exit_code = Exit(1)
        /\ exit_code = Exit(0) => Step = "end"

\* the steps that read a line from the operator whatever the configuration
\* file holds
LineSteps == InputSteps \ {"get_install_config"}

\* C18: with --yes and a configuration file whose fields are all valid the
\* run of main.py is non-interactive: no confirmation is answered by the
\* operator and the pipeline never waits at a step that reads a line.
C18_NonInteractive ==
    (variant = "Phases" /\ auto_yes) =>
        /\ confirmed = {} /\ declined = "none"
        /\ Running => Step \notin LineSteps

\* the scripts the installers generate into the target root
GeneratedScripts == {"/mnt/chroot.sh", "/mnt/resume_setup.sh"}

\* C20: in a run that reaches successful completion no generated script is
\* left in the target root.
C20_ScriptsDeleted ==
    (exit_code = Exit(0) /\ Step = "end") => files \cap GeneratedScripts = {}

\* C21: in a run that reaches successful completion every mount and swap
\* area the pipeline activated has been released.
C21_CompletedRunHoldsNothing ==
    (exit_code = Exit(0) /\ Step = "end") => active = <<>>

\* the partitioning command is about to be issued
AtFdisk == Running /\ Step = "fdisk"

\* what one step taken at fdisk leads to: an accepted retry of the same
\* call, success, or the end of the run
FdiskOutcome ==
    \/ /\ Running' /\ pc' = pc
       /\ attempt < RunRetries /\ attempt' = attempt + 1
    \/ (Running' /\ pc' = pc + 1 /\ "fdisk" \in executed')
    \/ (~Running' /\ (fatal' = "fdisk" \/ interrupted'))

\* C22: a failed fdisk is issued again only through an accepted retry
\* prompt (run_command adds one to attempt exactly when the operator accepts),
\* as the same call, at most RunRetries times; otherwise the run ends as
\* failed at fdisk, and once it has, no further command is spawned.
C22_FdiskRetryBounded ==
    /\ [](Step = "fdisk" => attempt <= RunRetries)
    /\ [](fatal = "fdisk" => (~Running /\ exit_code # Exit(0)))
    /\ [][(AtFdisk => FdiskOutcome)
            /\ (fatal = "fdisk" => executed' = executed)]_vars

C22_Witness ==
    /\ variant = "V2" /\ fatal = "fdisk" /\ attempt = RunRetries
    /\ "mkfs.fat" \notin executed

\* a format, swapon or mount command of the filesystem block is at hand
AtFsStep == Running /\ Step \in ElemsOf(FsSteps)

\* C23: when a filesystem command fails and the operator retries, only that
\* step is issued again: control stays at the step or moves on to the next
\* one, and never returns to fdisk or to the earlier prompts.
C23_RetryOnlyFailedStep ==
    [][AtFsStep => (pc' = pc \/ pc' = pc + 1)]_vars

\* C24: every retry of a failed filesystem command is counted against the
\* retry budget, so that retries end after RunRetries of them even if the
\* operator accepts every retry prompt.
C24_FsRetriesCounted ==
    [][(AtFsStep /\ Running' /\ pc' # pc + 1) =>
          (attempt' = attempt + 1 /\ attempt' <= RunRetries)]_vars

MntCount(act) == Cardinality({i \in DOMAIN act : act[i] = "/mnt"})
FinalLayoutMounts == {"/mnt/home", "/mnt/var", "/mnt/.snapshots", "/mnt/boot"}
SubvolSteps == {"subvol_root", "subvol_home", "subvol_var", "subvol_snapshots"}

\* C28: the top-level mount, the four subvolumes and the umount come before
\* the first subvol= mount, mkdir comes before the mounts below /mnt, and
\* the temporary top-level mount is never active together with the final
\* layout.
C28_TwoPhaseMount ==
    /\ "mount_root" \in executed =>
          ({"mount_top", "umount_top"} \cup SubvolSteps) \subseteq executed
    /\ ElemsOf(active) \cap FinalLayoutMounts # {} =>
          {"mount_root", "mkdir"} \subseteq executed
    /\ MntCount(active) <= 1
    /\ (Running /\ Step \in SubvolSteps \cup {"umount_top", "mount_root"}) =>
          ElemsOf(active) \cap FinalLayoutMounts = {}
    /\ (Running /\ Step = "mount_root") => MntCount(active) = 0

FormatSteps == {"mkfs.fat", "mkswap", "mkfs.btrfs"}

\* the filesystem-creation step a mount or swapon step depends on
FormatOf(s) ==
    CASE s = "swapon"     -> "mkswap"
      [] s = "mount_boot" -> "mkfs.fat"
      [] OTHER            -> "mkfs.btrfs"

\* C29: a partition is formatted only after fdisk succeeded in the run, a
\* mount or swapon is issued only after its filesystem was created, and after
\* a failure that ended the run nothing further is issued.
C29_CausalOrder ==
    /\ executed \cap FormatSteps # {} => "fdisk" \in executed
    /\ \A s \in executed : AcquiredBy(s) # "none" => FormatOf(s) \in executed
    /\ fatal # "none" => ~Running

\* C30: every value the operator supplies is read and validated before the
\* first command that changes the disk: no input step, and no abort over an
\* empty password, comes after it.
C30_InputBeforeMutation ==
    /\ (Running /\ Step \in InputSteps) => executed \cap DestructiveSteps = {}
    /\ fatal \in InputSteps => executed \cap DestructiveSteps = {}

\* C31: the generated script is executed at most once: after arch-chroot
\* has been issued for it the run either moves on (it succeeded) or ends, and
\* the command is never issued again.
C31_ScriptRunsOnce ==
    [][(Running /\ Step = "arch_chroot") => (pc' = pc + 1 \/ ~Running')]_vars

\* the commands V2 main wraps in a `while attempt < 3` loop of its own
LoopedSteps == {"reflector", "pacstrap", "genfstab", "arch_chroot"}

\* C34: a command inside a step-level retry loop is executed at most
\* RunRetries + 1 times.  Every accepted retry, of run_command or of the
\* loop around it, follows one execution, so attempt + loop_attempt
\* executions have been made when the step is about to be issued again.
C34_LoopRespectsRetryBound ==
    (Running /\ Step \in LoopedSteps) => attempt + loop_attempt <= RunRetries

\* C36: a run that fails after a generated script was written removes the
\* script before the process exits.
C36_FailedRunLeavesNoScript ==
    Failed => files \cap GeneratedScripts = {}

\* a run of V2 that reached the end of main and reported completion
V2Completed == variant = "V2" /\ Step = "end" /\ exit_code = Exit(0)

\* C38: the progress counter never exceeds the declared total, and it equals
\* the total when "Installation completed successfully" has been reported.
C38_ProgressReachesTotal ==
    /\ current_step <= total_steps
    /\ V2Completed => current_step = total_steps

\* the installers whose mirror-list refresh asks whether to continue
ConsentVariants == {"V2", "Phases", "NewV2"}

\* BaseInstalled: pacstrap has returned 0
BaseInstalled == pc > IndexOf(variant, "pacstrap")

\* C8: when reflector fails and the operator consents to continue, control
\* is past the refresh and on the way to pacstrap; such a run does not end
\* before BaseInstalled unless another step fails, a later prompt is refused
\* or a signal arrives; and in the installers that ask, a reflector failure
\* never ends the run as a failure.
C8_ReflectorFailureNotFatal ==
    /\ refl_outcome = "continued" =>
          /\ pc > IndexOf(variant, "reflector")
          /\ "reflector" \in executed
          /\ fatal # "reflector"
          /\ (exit_code # NoExit /\ ~BaseInstalled) =>
                (fatal # "none" \/ declined # "none" \/ interrupted)
    /\ variant \in ConsentVariants =>
          (refl_outcome # "exited" /\ fatal # "reflector")

\* a run whose reflector failed, whose operator consented, and whose
\* pacstrap then succeeded
C8_Witness ==
    /\ refl_outcome = "continued"
    /\ "continue" \in confirmed
    /\ "pacstrap" \in executed
    /\ BaseInstalled

----------------------------------------------------------------------------
(* Presence of external tools.  A run is a sequence of operations: a test  *)
(* of a list of tools with shutil.which, a command, or a command inside a  *)
(* try block that swallows every exception.                                *)

\* the list of ensure_dependencies / ensure_command_exists / V2 main
DependencyList ==
    {"reflector", "pacman", "pacman-key", "lsblk", "fdisk", "mkfs.fat",
     "mkswap", "swapon", "mkfs.btrfs", "mount", "btrfs", "umount", "mkdir",
     "pacstrap", "genfstab", "arch-chroot", "ln", "hwclock", "sed",
     "locale-gen", "chpasswd", "systemctl", "useradd", "grub-install",
     "grub-mkconfig"}

\* arch_install_v1.py main: the same list without fdisk
v1DependencyList == DependencyList \ {"fdisk"}

\* lucks_script.py main: the list tested before cryptsetup luksFormat
LucksDependencyList == {"cryptsetup", "pvcreate", "vgcreate"}

DpCheck(tools) == [op |-> "check", tools |-> tools]
DpRun(tool)    == [op |-> "run",   tools |-> {tool}]
DpTry(tool)    == [op |-> "try",   tools |-> {tool}]
\* a command of a tool that has sub-commands (cryptsetup luksFormat)
DpRunSub(tool, sub) == [op |-> "run", tools |-> {tool}, sub |-> sub]
DpSubOf(o) == IF "sub" \in DOMAIN o THEN o.sub ELSE ""

\* run_fdisk of New-V2/phases/fdisk_setup.py after list_disks
DpDiskCommands ==
    << DpRun("lsblk"), DpRun("fdisk"), DpRun("mkfs.fat"), DpRun("mkswap"),
       DpRun("swapon"), DpRun("mkfs.btrfs"), DpRun("mount"), DpRun("btrfs"),
       DpRun("umount"), DpRun("mkdir") >>

\* base_install and chroot_config of the phased installers, then main's reboot
DpInstallCommands ==
    << DpTry("reflector"), DpRun("pacman"), DpRun("pacman-key"),
       DpRun("pacstrap"), DpRun("genfstab"), DpRun("arch-chroot"),
       DpRun("rm"), DpRun("reboot") >>

DpProgram(script) ==
    CASE script \in {"Phases", "NewV2"} ->
            << DpCheck(DependencyList) >> \o DpDiskCommands \o DpInstallCommands
      [] script = "V2" ->
            << DpTry("ping"), DpTry("curl"), DpCheck(DependencyList),
               DpRun("lsblk"), DpTry("df"), DpRun("fdisk"), DpRun("reflector"),
               DpRun("pacman"), DpRun("pacman-key"), DpRun("mkfs.fat"),
               DpRun("mkswap"), DpRun("swapon"), DpRun("mkfs.btrfs"),
               DpRun("mount"), DpRun("btrfs"), DpRun("umount"), DpRun("mkdir"),
               DpRun("pacstrap"), DpRun("genfstab"), DpRun("arch-chroot") >>
      [] script = "v1" ->
            << DpCheck(v1DependencyList), DpRun("reflector"), DpRun("pacman"),
               DpRun("pacman-key"), DpRun("lsblk"), DpRun("mkfs.fat"),
               DpRun("mkswap"), DpRun("swapon"), DpRun("mkfs.btrfs"),
               DpRun("mount"), DpRun("btrfs"), DpRun("umount"), DpRun("mkdir"),
               DpRun("pacstrap"), DpRun("genfstab"), DpRun("arch-chroot") >>
      [] OTHER ->
            << DpCheck({"lsblk"}), DpRun("lsblk"), DpCheck(LucksDependencyList),
               DpRunSub("cryptsetup", "luksFormat"),
               DpRunSub("cryptsetup", "luksOpen"),
               DpRun("pvcreate"), DpRun("vgcreate"),
               DpRunSub("cryptsetup", "luksFormat") >>

DpScripts == {"V2", "Phases", "NewV2", "v1", "lucks"}

\* every tool an operation of the script names as a command
DpInvoked(script) ==
    UNION {DpProgram(script)[i].tools :
              i \in {j \in 1..Len(DpProgram(script)) :
                        DpProgram(script)[j].op # "check"}}

DpAllTools == UNION {DpInvoked(sc) : sc \in DpScripts} \cup DependencyList

\* fdisk, mkfs.*, mkswap and cryptsetup luksFormat
DestructiveTools == {"fdisk", "mkfs.fat", "mkfs.btrfs", "mkswap", "cryptsetup"}

DpOp == DpProgram(dp_script)[dp_pc]
DpRunning == dp_exit = "running" /\ dp_pc <= Len(DpProgram(dp_script))

\* a live system with every tool, or with one tool missing from PATH
DpInit ==
    /\ dp_script \in DpScripts
    /\ dp_absent \in {{}} \cup {{t} : t \in DpAllTools}
    /\ dp_pc = 1
    /\ dp_checked = {}
    /\ dp_ran = {}
    /\ dp_exit = "running"

\* shutil.which finds every tool of the list
DpCheckPass ==
    /\ DpRunning /\ DpOp.op = "check"
    /\ DpOp.tools \cap dp_absent = {}
    /\ dp_checked' = dp_checked \cup DpOp.tools
    /\ dp_pc' = dp_pc + 1
    /\ UNCHANGED <<dp_script, dp_absent, dp_ran, dp_exit>>
    /\ DpFrame

\* shutil.which returns None: "required command ... not found", exit 1
DpCheckFail ==
    /\ DpRunning /\ DpOp.op = "check"
    /\ DpOp.tools \cap dp_absent # {}
    /\ dp_checked' = dp_checked \cup DpOp.tools
    /\ dp_exit' = "dependency_error"
    /\ UNCHANGED <<dp_script, dp_absent, dp_pc, dp_ran>>
    /\ DpFrame

\* subprocess.run spawns the command
DpSpawn ==
    /\ DpRunning /\ DpOp.op \in {"run", "try"}
    /\ DpOp.tools \cap dp_absent = {}
    /\ dp_ran' = dp_ran \cup DpOp.tools
    /\ dp_pc' = dp_pc + 1
    /\ UNCHANGED <<dp_script, dp_absent, dp_checked, dp_exit>>
    /\ DpFrame

\* subprocess.run raises FileNotFoundError: exit 127 or a traceback
DpNotFound ==
    /\ DpRunning /\ DpOp.op = "run"
    /\ DpOp.tools \cap dp_absent # {}
    /\ dp_exit' = "not_found"
    /\ UNCHANGED <<dp_script, dp_absent, dp_pc, dp_checked, dp_ran>>
    /\ DpFrame

\* the try block swallows FileNotFoundError and the run goes on
DpSwallow ==
    /\ DpRunning /\ DpOp.op = "try"
    /\ DpOp.tools \cap dp_absent # {}
    /\ dp_pc' = dp_pc + 1
    /\ UNCHANGED <<dp_script, dp_absent, dp_checked, dp_ran, dp_exit>>
    /\ DpFrame

\* main returns
DpFinish ==
    /\ dp_exit = "running" /\ dp_pc > Len(DpProgram(dp_script))
    /\ dp_exit' = "done"
    /\ UNCHANGED <<dp_script, dp_absent, dp_pc, dp_checked, dp_ran>>
    /\ DpFrame

DpNext ==
    \/ DpCheckPass
    \/ DpCheckFail
    \/ DpSpawn
    \/ DpNotFound
    \/ DpSwallow
    \/ DpFinish

\* C16: every external tool the run can invoke has been tested for presence
\* before the first destructive command runs, and when a tool the run can
\* invoke is missing the run ends with a dependency error and no fdisk, mkfs,
\* mkswap or cryptsetup has been executed.
C16_DependenciesBeforeDestruction ==
    /\ dp_ran \cap DestructiveTools # {} => DpInvoked(dp_script) \subseteq dp_checked
    /\ dp_absent \cap DpInvoked(dp_script) # {} =>
          /\ dp_ran \cap DestructiveTools = {}
          /\ dp_exit \in {"running", "dependency_error"}

\* the commands the run has spawned so far: DpSpawn alone moves past one
DpIssued ==
    {i \in 1..(dp_pc - 1) : DpProgram(dp_script)[i].op = "run"}

LuksFormats ==
    {i \in DpIssued : DpSubOf(DpProgram(dp_script)[i]) = "luksFormat"}

\* luksOpen, pvcreate and vgcreate: the mapping and what is built on it
LuksBuilds ==
    {i \in DpIssued :
        \/ DpSubOf(DpProgram(dp_script)[i]) = "luksOpen"
        \/ DpProgram(dp_script)[i].tools \cap {"pvcreate", "vgcreate"} # {}}

\* C37: the encrypted-volume script formats the device with cryptsetup
\* luksFormat at most once in a run, and issues no format once the mapping
\* was opened and the physical volume and volume group were created on it.
C37_FormatOnce ==
    dp_script = "lucks" =>
        /\ Cardinality(LuksFormats) <= 1
        /\ \A f \in LuksFormats : \A b \in LuksBuilds : f < b

----------------------------------------------------------------------------
(* confirm(prompt): one question put to the operator.                      *)

Yes == {<<"y">>, <<"y", "e", "s">>}

\* the answer confirm computes from the line it read
answer_of(line) == Lower(Strip(line))

\* Phases/liberary.py confirm: [result, lines read]
confirm_Phases(auto, line) ==
    IF auto THEN <<TRUE, 0>>
    ELSE <<answer_of(line) \in Yes, 1>>

\* New-V2/phases/library.py confirm
confirm_NewV2(line) == <<answer_of(line) \in Yes, 1>>

\* Arch-Install-V2.py confirm(prompt, default)
confirm_V2(default, line) ==
    IF answer_of(line) = <<>> THEN <<default, 1>>
    ELSE <<answer_of(line) \in Yes, 1>>

\* the call sites of confirm in V2 main; every one leaves default at False
V2ConfirmSites == {"network", "destroy", "space", "gpt", "mirror"}
\* ... those written `not config.auto_confirm and not confirm(...)`
V2GuardedSites == {"destroy", "gpt"}

\* V2 main: the decision taken at a call site
gate_V2(site, auto, line) ==
    IF site \in V2GuardedSites /\ auto THEN <<TRUE, 0>>
    ELSE confirm_V2(FALSE, line)

CnAlphabet == {"y", "Y", "e", "s", "n", " "}
CnLines ==
    {<<>>} \cup {<<a>> : a \in CnAlphabet}
    \cup {<<a, b>> : a \in CnAlphabet, b \in CnAlphabet}
    \cup {<<a, b, c>> : a \in CnAlphabet, b \in CnAlphabet, c \in CnAlphabet}
    \cup {<<" ", "Y", "E", "S", " ">>, <<"y", "e", "s", "s">>,
          <<"Y", "e", "s", " ">>, <<"n", "o">>}

CnInit ==
    /\ cn_script \in {"Phases", "V2", "NewV2"}
    /\ cn_site \in (IF cn_script = "V2" THEN V2ConfirmSites ELSE {"any"})
    /\ cn_auto \in (IF cn_script = "NewV2" THEN {FALSE} ELSE BOOLEAN)
    /\ cn_line \in CnLines
    /\ cn_pc = "call"
    /\ cn_result = FALSE
    /\ cn_reads = 0

CnOutcome ==
    CASE cn_script = "Phases" -> confirm_Phases(cn_auto, cn_line)
      [] cn_script = "V2"     -> gate_V2(cn_site, cn_auto, cn_line)
      [] OTHER                -> confirm_NewV2(cn_line)

\* the question is put and answered
CnConfirm ==
    /\ cn_pc = "call"
    /\ cn_result' = CnOutcome[1]
    /\ cn_reads' = CnOutcome[2]
    /\ cn_pc' = "returned"
    /\ UNCHANGED <<cn_script, cn_site, cn_auto, cn_line>>
    /\ CnFrame

CnNext == CnConfirm

\* C17: confirm returns true exactly when forced-yes mode is active or the
\* line, trimmed and lower-cased, is "y" or "yes"; and in forced-yes mode it
\* reads no input.
C17_ConfirmContract ==
    cn_pc = "returned" =>
        /\ cn_result <=> (cn_auto \/ answer_of(cn_line) \in Yes)
        /\ cn_auto => cn_reads = 0

----------------------------------------------------------------------------
(* save_config of Arch-Install-V2.py.                                      *)

SvNames   == {<<"a", "b", "c">>, <<"p", "c">>}
\* what the operator may type as a password (one of them is also a user name)
SvSecrets == {<<"a", "b", "c">>, <<"s", "3", "c">>}

\* InstallConfig as main holds it when it calls save_config
SvConfigs ==
    [username : SvNames, user_pass : SvSecrets, root_pass : SvSecrets,
     host_name : {<<"p", "c">>}, country : {<<"I", "r", "a", "n">>},
     timezone : {<<"U", "T", "C">>}, disk_base : {<<"s", "d", "a">>, <<"v", "d", "a">>},
     auto_confirm : BOOLEAN, dry_run : BOOLEAN, backup_existing : BOOLEAN]

SecretKeys == {"user_pass", "root_pass"}

\* the dictionary of every field of the dataclass
save_config_asdict(config) == config

\* config_data of save_config: the keys it lists, with the config's values
save_config(config) ==
    [k \in {"username", "host_name", "country", "timezone", "disk_base",
            "auto_confirm", "dry_run", "backup_existing"} |-> config[k]]

SvInit ==
    /\ sv_config \in SvConfigs
    /\ sv_file = <<>>
    /\ sv_pc = "filled"
    /\ sv_argv = {}
    /\ sv_loaded = <<>>

\* json.dump writes config_data to install_config.json
SvSave ==
    /\ sv_pc = "filled"
    /\ sv_file' = save_config(sv_config)
    /\ sv_pc' = "saved"
    /\ UNCHANGED <<sv_config, sv_argv, sv_loaded>>
    /\ SvFrame

\* open or json.dump raises: "Could not save config file", nothing is kept
SvSaveFails ==
    /\ sv_pc = "filled"
    /\ sv_pc' = "unsaved"
    /\ UNCHANGED <<sv_config, sv_file, sv_argv, sv_loaded>>
    /\ SvFrame

\* InstallConfig(): the defaults of the dataclass
InstallConfig ==
    [username |-> <<>>, user_pass |-> <<>>, root_pass |-> <<>>,
     host_name |-> <<>>, country |-> <<>>, timezone |-> <<>>,
     disk_base |-> <<>>, auto_confirm |-> FALSE, dry_run |-> FALSE,
     backup_existing |-> FALSE]

\* InstallConfig(**config_data): the file's value for each key it has
InstallConfigFrom(data) ==
    [k \in DOMAIN InstallConfig |->
        IF k \in DOMAIN data THEN data[k] ELSE InstallConfig[k]]

\* load_config: the object built from the file; nothing when the file does
\* not exist or names a key InstallConfig does not have (TypeError, caught)
load_config(exists, data) ==
    IF exists /\ DOMAIN data \subseteq DOMAIN InstallConfig
    THEN [found |-> TRUE, config |-> InstallConfigFrom(data)]
    ELSE [found |-> FALSE, config |-> InstallConfig]

\* main: the flags read from sys.argv into a new InstallConfig
main_flags(argv) ==
    [InstallConfig EXCEPT !.dry_run = "--dry-run" \in argv,
                          !.auto_confirm = "--auto-confirm" \in argv,
                          !.backup_existing = "--backup" \in argv]

\* main: `config = loaded_config` when --config names a file that loads
main_config(argv, exists, data) ==
    LET loaded_config == load_config(exists, data)
    IN  IF "--config" \in argv /\ loaded_config.found
        THEN loaded_config.config
        ELSE main_flags(argv)

SvOptions == {"--dry-run", "--auto-confirm", "--backup", "--config"}

\* the installer is started again, install_config.json being as the run
\* before left it
SvMainStarts ==
    /\ sv_pc \in {"saved", "unsaved"}
    /\ \E argv \in SUBSET SvOptions :
          /\ sv_argv' = argv
          /\ sv_loaded' = main_config(argv, sv_pc = "saved",
                                      IF sv_pc = "saved" THEN sv_file
                                      ELSE InstallConfig)
    /\ sv_pc' = "parsed"
    /\ UNCHANGED <<sv_config, sv_file>>
    /\ SvFrame

SvNext == SvSave \/ SvSaveFails \/ SvMainStarts

\* C19: the file save_config writes has no user_pass and no root_pass entry,
\* and each value in it is the value of the non-secret field it is filed
\* under, whatever passwords were entered.
C19_SavedConfigHasNoPassword ==
    sv_pc = "saved" =>
        /\ DOMAIN sv_file \cap SecretKeys = {}
        /\ \A k \in DOMAIN sv_file : sv_file[k] = sv_config[k]

C19_Witness ==
    /\ sv_pc = "saved"
    /\ "username" \in DOMAIN sv_file
    /\ sv_config.user_pass # <<>> /\ sv_config.root_pass # <<>>
    /\ sv_config.user_pass # sv_config.root_pass

\* C35: loading a configuration file with --config leaves the mode flags
\* of the command line alone: --dry-run and --auto-confirm given there are
\* still set after the file is loaded.
C35_FlagsSurviveConfig ==
    (sv_pc = "parsed" /\ "--config" \in sv_argv) =>
        /\ "--dry-run" \in sv_argv => sv_loaded.dry_run
        /\ "--auto-confirm" \in sv_argv => sv_loaded.auto_confirm

----------------------------------------------------------------------------
(* run_command: one call of the command executor of each installer.        *)

ExScripts  == {"V2", "Phases", "NewV2", "v1"}
ExCommands == {"mkfs.fat", "mount", "pacstrap", "genfstab"}
\* exit statuses of a child that ran and failed
ExitCodes  == FailCodes \cup {127}

ChildOk       == [st |-> "ok", rc |-> 0]
ChildNotFound == [st |-> "not_found", rc |-> 0]
ChildExited(rc) == [st |-> "exited", rc |-> rc]
ChildResults  == {ChildOk, ChildNotFound} \cup {ChildExited(rc) : rc \in ExitCodes}

\* what reaches the caller: a return, an exception raised to it, or the end
\* of the process
Outcome(type, tag, cmd, code) ==
    [type |-> type, tag |-> tag, cmd |-> cmd, code |-> code]
Returned == Outcome("return", "", "", 0)
Pending  == Outcome("pending", "", "", 0)

\* how run_command of the script ends a call whose last child did `result`
outcome_of(script, cmd, result) ==
    CASE result.st = "ok" -> Returned
      [] result.st = "not_found" ->
            CASE script = "V2"    -> Outcome("InstallError", "Command not found", cmd, 0)
              [] script = "NewV2" -> Outcome("SystemExit", "", "", 127)
              [] OTHER            -> Outcome("FileNotFoundError", "uncaught", cmd, 0)
      [] OTHER ->
            IF script = "V2"
            THEN Outcome("InstallError", "Command failed", cmd, result.rc)
            ELSE Outcome("SystemExit", "", "", result.rc)

ExInit ==
    /\ ex_script \in ExScripts
    /\ ex_command \in ExCommands
    /\ ex_pc = "called"
    /\ ex_attempt = 0
    /\ ex_spawns = 0
    /\ ex_result = ChildOk
    /\ ex_outcome = Pending

ExKeep == UNCHANGED <<ex_script, ex_command>>

\* subprocess.run(command, check=True, ...) is called and comes back
ExSpawn ==
    /\ ex_pc = "called"
    /\ ex_spawns' = ex_spawns + 1
    /\ ex_result' \in ChildResults
    /\ ex_pc' = "finished"
    /\ UNCHANGED <<ex_attempt, ex_outcome>>
    /\ ExKeep /\ ExFrame

\* the child returned 0: run_command returns
ExReturn ==
    /\ ex_pc = "finished" /\ ex_result.st = "ok"
    /\ ex_outcome' = outcome_of(ex_script, ex_command, ex_result)
    /\ ex_pc' = "ended"
    /\ UNCHANGED <<ex_attempt, ex_spawns, ex_result>>
    /\ ExKeep /\ ExFrame

\* V2: attempt < retries and retry_prompt is answered yes: the loop runs again
ExRetry ==
    /\ ex_pc = "finished" /\ ex_result.st # "ok"
    /\ ex_script = "V2" /\ ex_attempt < RunRetries
    /\ ex_attempt' = ex_attempt + 1
    /\ ex_pc' = "called"
    /\ UNCHANGED <<ex_spawns, ex_result, ex_outcome>>
    /\ ExKeep /\ ExFrame

\* the except clause ends the call: raise InstallError (V2), sys.exit, or no
\* clause matches and the exception leaves run_command
ExFail ==
    /\ ex_pc = "finished" /\ ex_result.st # "ok"
    /\ ex_outcome' = outcome_of(ex_script, ex_command, ex_result)
    /\ ex_pc' = "ended"
    /\ UNCHANGED <<ex_attempt, ex_spawns, ex_result>>
    /\ ExKeep /\ ExFrame

ExNext == ExSpawn \/ ExReturn \/ ExRetry \/ ExFail

\* C25: a call of run_command spawns exactly one child; the executor never
\* runs the command a second time on its own.
C25_OneSpawnPerCall ==
    /\ ex_spawns <= 1
    /\ ex_pc = "ended" => ex_spawns = 1

\* C26: after a child that exited non-zero the caller gets an error outcome
\* that carries the command and the exit code, and the executor has not
\* ended the process.
C26_FailureReturnsToCaller ==
    (ex_pc = "ended" /\ ex_result.st = "exited") =>
        /\ ex_outcome.type \notin {"SystemExit", "return"}
        /\ ex_outcome.cmd = ex_command
        /\ ex_outcome.code = ex_result.rc

\* C27: a missing executable is handled by the executor and ends the call
\* with an outcome that no child that ran and failed could have produced.
C27_NotFoundIsDistinct ==
    (ex_pc = "ended" /\ ex_result.st = "not_found") =>
        /\ ex_outcome.tag # "uncaught"
        /\ \A rc \in ExitCodes :
              outcome_of(ex_script, ex_command, ChildExited(rc)) # ex_outcome

----------------------------------------------------------------------------
(* Specifications.  Each one runs one part of the model; the variables of  *)
(* the other parts stay at their idle values.                              *)

PlIdle == pl_script = "none" /\ pl_pc = "off" /\ pl_name = <<>> /\ pl_parts = <<>>
ScIdle ==
    /\ sc_script = "none" /\ sc_pc = "off" /\ sc_args = <<>> /\ sc_file = <<>>
    /\ sc_log = <<>>
CfIdle ==
    /\ cf_raw = <<>> /\ cf_pc = 0 /\ cf_config = <<>> /\ cf_prompted = {}
    /\ cf_first = <<>>
InIdle ==
    /\ in_script = "none" /\ in_field = "none" /\ in_pc = "off" /\ in_value = <<>>
    /\ in_second = <<>>
FsIdle == fs_script = "none" /\ fs_content = <<>> /\ fs_runs = 0
PpIdle ==
    /\ variant = "none" /\ pc = 0 /\ exit_code = NoExit
    /\ auto_yes = FALSE /\ dry_run = FALSE
    /\ attempt = 0 /\ loop_attempt = 0 /\ depth = 0
    /\ active = <<>> /\ released = <<>> /\ snapshot = <<>> /\ umount_ok = FALSE
    /\ executed = {} /\ confirmed = {} /\ declined = "none" /\ fatal = "none"
    /\ cmd_rc = 0
    /\ interrupted = FALSE /\ refl_outcome = "none" /\ fstab = <<>> /\ files = {}
    /\ current_step = 0

DpIdle ==
    /\ dp_script = "none" /\ dp_absent = {} /\ dp_pc = 0 /\ dp_checked = {}
    /\ dp_ran = {} /\ dp_exit = "off"
CnIdle ==
    /\ cn_script = "none" /\ cn_site = "none" /\ cn_auto = FALSE /\ cn_line = <<>> /\ cn_pc = "off"
    /\ cn_result = FALSE /\ cn_reads = 0
SvIdle ==
    /\ sv_config = <<>> /\ sv_file = <<>> /\ sv_pc = "off"
    /\ sv_argv = {} /\ sv_loaded = <<>>
ExIdle ==
    /\ ex_script = "none" /\ ex_command = "none" /\ ex_pc = "off"
    /\ ex_attempt = 0 /\ ex_spawns = 0 /\ ex_result = <<>> /\ ex_outcome = <<>>
AuxIdle == DpIdle /\ CnIdle /\ SvIdle /\ ExIdle
MainIdle == PlIdle /\ ScIdle /\ CfIdle /\ InIdle /\ FsIdle /\ PpIdle

\* the installation pipeline
Init == PpInit /\ PlIdle /\ ScIdle /\ CfIdle /\ InIdle /\ FsIdle /\ AuxIdle
Next == PpNext
Spec == Init /\ [][Next]_vars

\* the partition planner
InitPlanner == PlInit /\ ScIdle /\ CfIdle /\ InIdle /\ FsIdle /\ PpIdle /\ AuxIdle
SpecPlanner == InitPlanner /\ [][PlNext]_vars

\* the second-stage script generator
InitScript == ScInit /\ PlIdle /\ CfIdle /\ InIdle /\ FsIdle /\ PpIdle /\ AuxIdle
SpecScript == InitScript /\ [][ScNext]_vars

\* get_install_config
InitConfig == CfInit /\ PlIdle /\ ScIdle /\ InIdle /\ FsIdle /\ PpIdle /\ AuxIdle
SpecConfig == InitConfig /\ [][CfNext]_vars

\* operator input
InitInput == InInit /\ PlIdle /\ ScIdle /\ CfIdle /\ FsIdle /\ PpIdle /\ AuxIdle
SpecInput == InitInput /\ [][InNext]_vars

\* the fstab step
InitFstab == FsInit /\ PlIdle /\ ScIdle /\ CfIdle /\ InIdle /\ PpIdle /\ AuxIdle
SpecFstab == InitFstab /\ [][FsNext]_vars

\* presence of external tools
InitDeps == DpInit /\ MainIdle /\ CnIdle /\ SvIdle /\ ExIdle
SpecDeps == InitDeps /\ [][DpNext]_vars

\* confirm
InitConfirm == CnInit /\ MainIdle /\ DpIdle /\ SvIdle /\ ExIdle
SpecConfirm == InitConfirm /\ [][CnNext]_vars

\* save_config
InitSave == SvInit /\ MainIdle /\ DpIdle /\ CnIdle /\ ExIdle
SpecSave == InitSave /\ [][SvNext]_vars

\* run_command
InitExec == ExInit /\ MainIdle /\ DpIdle /\ CnIdle /\ SvIdle
SpecExec == InitExec /\ [][ExNext]_vars

====
